---- MODULE Spec2Model ----
(***************************************************************************)
(* Progressive Deployment Controller of scripts/deploy_helper.py:          *)
(* the state store (load_deployment_state / save_deployment_state), the    *)
(* stage runner (deploy_stage, check_transient_locks,                      *)
(* run_ansible_with_retry) and the two entry points                        *)
(* progressive_deployment (RunAll) and resume_deployment (Resume).         *)
(*                                                                         *)
(* A stage is identified by its position 1..NumStages in the config: the   *)
(* name of stage k is "stage k" and its playbook is the k-th playbook.     *)
(* dry_run is False throughout.                                            *)
(***************************************************************************)
EXTENDS Integers, Sequences, FiniteSets, TLC

\* ---------------------------------------------------------------- bounds
NumStages == 2
NumPre == 1
MaxCalls == 2

\* ------------------------------------------------------ program constants
DefaultTimeout == 300
DefaultRetries == 3
ScalingFactor == 2
LockRetries == 2

Unset == -1
None == 0

DefaultFile == "deployment_state.json"
CustomFile == "custom_state.json"
DefaultBackup == "deployment_state.json.backup"
CustomBackup == "custom_state.json.backup"
Paths == {DefaultFile, CustomFile, DefaultBackup, CustomBackup}

BackupOf(p) == IF p = DefaultFile THEN DefaultBackup ELSE CustomBackup

StageIds == 1..NumStages
Statuses == {"in_progress", "completed", "failed"}

\* ------------------------------------------------- DeploymentState (dict)
\* A dict keeps insertion order: 'stages' is a sequence of entries.
\* has = the 'stages' key is present; last_updated = that key is present.
EmptyState == [has |-> FALSE, stages |-> <<>>, last_updated |-> FALSE]

Entry(n, st, r) == [name |-> n, status |-> st, resumed_at |-> r]

HasKey(stages, n) == \E k \in 1..Len(stages) : stages[k].name = n

IndexOfKey(stages, n) == CHOOSE k \in 1..Len(stages) : stages[k].name = n

\* state.get('stages', {}).get(n, {}).get('status'); absence is not_started
StatusOf(st, n) ==
  IF HasKey(st.stages, n) THEN st.stages[IndexOfKey(st.stages, n)].status
  ELSE "not_started"

\* the whole StageOutcome stored for n (absence as a not_started entry)
OutcomeOf(st, n) ==
  IF HasKey(st.stages, n) THEN st.stages[IndexOfKey(st.stages, n)]
  ELSE Entry(n, "not_started", FALSE)

\* d[n] = e : replaces in place, or appends a new key at the end
DictSet(stages, n, e) ==
  IF HasKey(stages, n)
  THEN [stages EXCEPT ![IndexOfKey(stages, n)] = e]
  ELSE Append(stages, e)

\* ------------------------------------------------------------ file system
AbsentFile == [kind |-> "absent", data |-> EmptyState]
TornFile == [kind |-> "torn", data |-> EmptyState]
JsonFile(st) == [kind |-> "json", data |-> st]

Exists(f, p) == f[p].kind # "absent"

\* load_deployment_state: {} when the file is missing or does not parse
LoadState(f, p) == IF f[p].kind = "json" THEN f[p].data ELSE EmptyState

\* a rename that leaves a backup already there untouched
RenameKeepsTarget(f, src, dst) ==
  IF Exists(f, dst) THEN [f EXCEPT ![src] = AbsentFile]
  ELSE [f EXCEPT ![dst] = f[src], ![src] = AbsentFile]

\* Path.rename (save_deployment_state line 40): dst takes the contents of src,
\* replacing what was there, and src is gone
Rename(f, src, dst) == [f EXCEPT ![dst] = f[src], ![src] = AbsentFile]

\* ------------------------------------------------------- hardware profile
Tiers == {"high_performance", "standard", "minimal", "resource_constrained", "unknown"}

\* optimize_for_hardware: timeout_multiplier in tenths
TimeoutMultiplier10(t) ==
  CASE t = "high_performance" -> 8
    [] t = "standard" -> 10
    [] t = "minimal" -> 15
    [] t = "resource_constrained" -> 20
    [] OTHER -> 10

RetryCount(t) ==
  CASE t = "high_performance" -> 2
    [] t = "standard" -> 3
    [] t = "minimal" -> 4
    [] t = "resource_constrained" -> 5
    [] OTHER -> 3

AsyncEnabled(t) == t \in {"high_performance", "standard"}

\* the machines the controller runs on here
RunTiers == {"standard", "minimal"}

\* ------------------------------------------------------------ stage config
\* timeout / retries: Unset or a number; async: "unset", "true", "false"
StageOption(t, r, a, l, p) ==
  [timeout |-> t, retries |-> r, async |-> a, check_locks |-> l, pre_commands |-> p]

\* the stage options of the config files run here: everything left to the
\* defaults, and an explicit timeout with async on and the lock check off
StageOptions ==
  {StageOption(Unset, Unset, "unset", TRUE, NumPre),
   StageOption(100, Unset, "true", FALSE, NumPre)}

\* values a stage runs with (deploy_stage lines 361-364)
Effective(n, timeout, retries, async, opts) ==
  [name |-> n, timeout |-> timeout, retries |-> retries, async |-> async,
   check_locks |-> opts.check_locks, pre_commands |-> opts.pre_commands]

\* progressive_deployment lines 472-476: optimizations applied to a copy
OptimizedStage(n, opts, t) ==
  Effective(n,
    ((IF opts.timeout = Unset THEN DefaultTimeout ELSE opts.timeout)
        * TimeoutMultiplier10(t)) \div 10,
    IF opts.retries = Unset THEN RetryCount(t) ELSE opts.retries,
    IF opts.async = "unset" THEN AsyncEnabled(t) ELSE opts.async = "true",
    opts)

\* resume_deployment line 558: the raw stage config, deploy_stage defaults
RawStage(n, opts) ==
  Effective(n,
    IF opts.timeout = Unset THEN DefaultTimeout ELSE opts.timeout,
    IF opts.retries = Unset THEN DefaultRetries ELSE opts.retries,
    opts.async = "true",
    opts)

NoStage == Effective(None, 0, 0, FALSE, [check_locks |-> FALSE, pre_commands |-> 0])

RECURSIVE Pow(_, _)
Pow(b, k) == IF k = 0 THEN 1 ELSE b * Pow(b, k - 1)

\* a backoff that grows by a fixed step instead of doubling
AttemptTimeoutLinear(base, attempt) == base + base * attempt

\* run_ansible_with_retry line 293
AttemptTimeout(base, attempt) == base * Pow(ScalingFactor, attempt)

\* --------------------------------------------------------------- variables
VARIABLES
  fs,         \* path -> file
  stateArg,   \* the state_file argument the caller passes
  config,     \* the options every stage of the config file carries
  tier,       \* hardware_profile['type'] detect_hardware_profile finds on this machine
  op,         \* "none", "RunAll", "Resume"
  pc,         \* position of the controller
  state,      \* the in-memory DeploymentState of the current call
  loaded,     \* the DeploymentState the current call loaded at its start
  i,          \* loop index of progressive_deployment
  cur,        \* stage_config handed to deploy_stage
  preIdx,     \* index of the next pre_command
  attempt,    \* loop index of run_ansible_with_retry
  success,    \* value deploy_stage hands back: "True", "False", "None"
  svFrom,     \* call site of the running save_deployment_state
  svPath,     \* its state_file parameter
  svRet,      \* its return value: "True", "False", "none"
  result,     \* outcome of the call
  trace,      \* lock checks, pre_commands and executor invocations of the call
  failedAt,   \* stage whose execution ended in failure in this call
  resumed,    \* last_incomplete of resume_deployment
  calls,      \* number of calls started
  prev,       \* summary of the previous call
  durable     \* stage completed and saved when the previous call crashed

\* state_reconciliation.py, test_idempotence.py and detect_hardware_profile run
\* on their own, apart from the controller; what they work on:
VARIABLES
  pre_snapshot,          \* snapshot directory compare_snapshots gets as before_dir
  post_snapshot,         \* its after_dir, also what check_multi_node_consistency reads
  differences,           \* what compare_snapshots returns
  post_consistency,      \* what check_multi_node_consistency returns
  baseline,              \* baseline state of drift detection, pre_state of the differ
  current,               \* current state of drift detection, post_state of the differ
  changes,               \* what _analyze_state_changes returns
  drift_analysis,        \* what _analyze_configuration_drift returns
  results,               \* iteration results of test_idempotence
  idempotence_analysis,  \* what _analyze_idempotence returns
  cpu_count,             \* os.cpu_count() on this machine
  memory_total,          \* psutil.virtual_memory().total, in thousandths of a GiB
  hardware_profile,      \* what detect_hardware_profile returns
  optimizations,         \* what optimize_for_hardware returns
  tpc                    \* position of the tool

\* capture calls and the parsers of the executor's output; a second
\* controller run on the same state file
VARIABLES
  clock,           \* datetime.now(), in half seconds
  captures,        \* the capture calls: directory, queries issued, sections filled, outcome
  snapshot_files,  \* the files under the snapshot directories and who wrote them last
  output,          \* stdout of an ansible ad-hoc query, line by line
  parsed,          \* what a parser makes of it
  runs             \* two controller runs on one state file

captureVars == <<clock, captures, snapshot_files, output, parsed, runs>>

toolVars == <<pre_snapshot, post_snapshot, differences, post_consistency, baseline,
              current, changes, drift_analysis, results, idempotence_analysis,
              cpu_count, memory_total, hardware_profile, optimizations, tpc,
              captureVars>>

vars == <<toolVars, fs, stateArg, config, tier, op, pc, state, loaded, i, cur, preIdx,
          attempt, success, svFrom, svPath, svRet, result, trace, failedAt,
          resumed, calls, prev, durable>>

\* ------------------------------------------------------------------- Init
\* the keys of a state file found at the start, in the order of the config
\* (the order in which a run records its stages)
Ascending(s) == \A a, b \in DOMAIN s : a < b => s[a] < s[b]

KeyOrders == {s \in UNION {[1..k -> StageIds] : k \in 0..NumStages} : Ascending(s)}

InitEntry(n, st) == Entry(n, st, st = "in_progress")

\* the statuses of a state file found at the start; in_progress is what a
\* Resume leaves behind
InitStatuses == {"completed", "failed"}

InitDicts ==
  UNION {{[k \in 1..Len(o) |-> InitEntry(o[k], sts[k])] :
            sts \in [1..Len(o) -> InitStatuses]} : o \in KeyOrders}

InitFiles ==
  {AbsentFile, JsonFile(EmptyState)} \cup
  {JsonFile([has |-> TRUE, stages |-> d, last_updated |-> TRUE]) : d \in InitDicts}

AllCompletedFile ==
  JsonFile([has |-> TRUE,
            stages |-> [k \in 1..NumStages |-> InitEntry(k, "completed")],
            last_updated |-> TRUE])

PrevNone == [op |-> "none", failed |-> None, ended |-> "none"]

\* nothing has been called yet
ControllerAtRest ==
  /\ op = "none"
  /\ pc = "idle"
  /\ state = EmptyState
  /\ loaded = EmptyState
  /\ i = 0
  /\ cur = NoStage
  /\ preIdx = 0
  /\ attempt = 0
  /\ success = "none"
  /\ svFrom = "none"
  /\ svPath = DefaultFile
  /\ svRet = "none"
  /\ result = "none"
  /\ trace = <<>>
  /\ failedAt = None
  /\ resumed = None
  /\ calls = 0
  /\ prev = PrevNone
  /\ durable = None

ControllerInit ==
  /\ stateArg \in {DefaultFile, CustomFile}
  /\ \E f \in InitFiles, g \in {AbsentFile, AllCompletedFile} :
       fs = [p \in Paths |->
               IF p = stateArg THEN f
               ELSE IF p = DefaultFile THEN g
               ELSE AbsentFile]
  /\ config \in StageOptions
  /\ tier \in RunTiers
  /\ ControllerAtRest

\* a tool that is not run
NotRun == "not_run"

ReconcileIdle ==
  /\ pre_snapshot = NotRun /\ post_snapshot = NotRun
  /\ differences = NotRun /\ post_consistency = NotRun

DriftIdle ==
  /\ baseline = NotRun /\ current = NotRun
  /\ changes = NotRun /\ drift_analysis = NotRun

IdempotenceIdle == results = NotRun /\ idempotence_analysis = NotRun

HardwareIdle ==
  /\ cpu_count = NotRun /\ memory_total = NotRun
  /\ hardware_profile = NotRun /\ optimizations = NotRun

CaptureIdle ==
  /\ clock = 0 /\ captures = NotRun /\ snapshot_files = NotRun
  /\ output = NotRun /\ parsed = NotRun /\ runs = NotRun

\* deploy_helper.py run from the command line: the other tools are not run
Init ==
  /\ CaptureIdle
  /\ ControllerInit
  /\ ReconcileIdle /\ DriftIdle /\ IdempotenceIdle /\ HardwareIdle
  /\ tpc = NotRun

controllerVars == <<fs, stateArg, config, tier, op, pc, state, loaded, i, cur, preIdx,
                    attempt, success, svFrom, svPath, svRet, result, trace,
                    failedAt, resumed, calls, prev, durable>>

\* deploy_helper.py's controller is not run: no state file, nothing called
ControllerIdle ==
  /\ ControllerInit
  /\ stateArg = DefaultFile
  /\ fs = [p \in Paths |-> AbsentFile]
  /\ config = StageOption(Unset, Unset, "unset", TRUE, NumPre)
  /\ tier = "standard"

\* ------------------------------------------------------------ trace events
Event(k, n, x, t, o) == [kind |-> k, stage |-> n, idx |-> x, timeout |-> t, outcome |-> o]

SetLastOutcome(tr, o) == [tr EXCEPT ![Len(tr)].outcome = o]

\* how an invocation of the executor ends: exit code 0; non-zero exit with a
\* timeout indication in stderr; non-zero exit without; the wait on the
\* subprocess timed out; run_process raised while it read the output (lines
\* 270-277: a result with success False, the subprocess neither killed nor
\* waited for)
ExecOutcomes == {"ok", "timeout_stderr", "error", "gateway_timeout", "abandoned"}

\* ------------------------------------------------------------ pure helpers
\* a lock check that lets every stage through
CheckTransientLocksPasses(locks) == TRUE

\* check_transient_locks: locks[a] = a lock file exists at poll a.
\* The first pass through the loop body returns in both branches.
CheckTransientLocks(locks) == IF LockRetries = 0 THEN FALSE ELSE ~locks[1]

\* what the lock files did while check_transient_locks could have polled:
\* no lock at the first poll, a lock at the first poll that was gone at a
\* later one, a lock at every poll
LockFilesDid(locks) ==
  IF LockRetries = 0 \/ ~locks[1] THEN "clear"
  ELSE IF \E a \in 2..LockRetries : ~locks[a] THEN "cleared_later"
  ELSE "locked"

\* a loop that makes one attempt more than max_retries
ExhaustedOneLate(attempt_no, max_retries) == attempt_no > max_retries

\* run_ansible_with_retry line 292: range(max_retries) has no attempt left
Exhausted(attempt_no, max_retries) == attempt_no >= max_retries

\* a loop that takes every failed attempt for a transient one
RetryVerdictRetriesErrors(async, out) == IF out = "ok" THEN "return_true" ELSE "continue"

\* run_ansible_with_retry, one attempt: what the loop does with the outcome.
\* Synchronous mode runs with check=True, so every non-zero exit raises
\* CalledProcessError and lands in `except Exception` (return False).
RetryVerdict(async, out) ==
  IF async
  THEN CASE out = "ok" -> "return_true"
         [] out = "timeout_stderr" -> "continue"
         [] OTHER -> "return_false"
  ELSE CASE out = "ok" -> "return_true"
         [] out = "gateway_timeout" -> "continue"
         [] OTHER -> "return_false"

\* resume_deployment lines 526-529: first entry with status failed, else None
RECURSIVE FirstWithStatus(_, _, _)
FirstWithStatus(stages, st, k) ==
  IF k > Len(stages) THEN None
  ELSE IF stages[k].status = st THEN stages[k].name
  ELSE FirstWithStatus(stages, st, k + 1)

\* a resume that looks for the wrong status
FirstCompleted(stages) == FirstWithStatus(stages, "completed", 1)

FirstFailed(stages) == FirstWithStatus(stages, "failed", 1)

\* a run that does not look at what deploy_stage handed back
NeverStops(s) == FALSE

\* progressive_deployment line 481: `if not success`
NotSuccess(s) == s # "True"

\* progressive_deployment lines 490-492
CompletedCount(st) == Cardinality({k \in 1..Len(st.stages) : st.stages[k].status = "completed"})

\* progressive_deployment line 467
ShouldSkip(st, n) == StatusOf(st, n) = "completed"

\* a deploy_stage that leaves the DeploymentState as it is
RecordNothing(st, n) == st

\* deploy_stage lines 400-405
RecordCompleted(st, n) ==
  [st EXCEPT !.stages = DictSet(@, n, Entry(n, "completed", FALSE))]

\* resume_deployment lines 538-539
MarkInProgress(st, n) ==
  [st EXCEPT !.stages = DictSet(@, n, Entry(n, "in_progress", TRUE))]

\* the state_file argument the two call sites of save_deployment_state pass
\* (lines 406 and 540 pass none: the parameter default)
SavePathUsed(arg) == DefaultFile

\* the state_file argument of the final load_deployment_state() (line 490)
FinalLoadPath(arg) == DefaultFile

\* ----------------------------------------------------------------- actions
Ended == IF pc = "done" THEN "returned" ELSE IF pc = "crashed" THEN "crashed" ELSE "none"

BeginCall(o) ==
  /\ pc \in {"idle", "done", "crashed"}
  /\ calls < MaxCalls
  /\ calls' = calls + 1
  /\ op' = o
  /\ prev' = [op |-> op, failed |-> failedAt, ended |-> Ended]
  /\ durable' = IF pc = "crashed" THEN durable ELSE None
  /\ state' = LoadState(fs, stateArg)
  /\ loaded' = LoadState(fs, stateArg)
  /\ trace' = <<>>
  /\ failedAt' = None
  /\ result' = "none"
  /\ success' = "none"
  /\ cur' = NoStage
  /\ preIdx' = 0
  /\ attempt' = 0
  /\ svFrom' = "none"
  /\ svRet' = "none"
  /\ UNCHANGED <<toolVars, fs, stateArg, config, tier, svPath>>

\* progressive_deployment lines 440-459
StartRunAll ==
  /\ BeginCall("RunAll")
  /\ i' = 1
  /\ resumed' = None
  /\ pc' = "ra_loop"

\* progressive_deployment lines 461-479
RunAllLoop ==
  /\ pc = "ra_loop"
  /\ IF i > NumStages
     THEN /\ pc' = "ra_final"
          /\ UNCHANGED <<i, cur>>
     ELSE IF ShouldSkip(state, i)
     THEN /\ i' = i + 1
          /\ UNCHANGED <<pc, cur>>
     ELSE /\ cur' = OptimizedStage(i, config, tier)
          /\ pc' = "ds_locks"
          /\ UNCHANGED i
  /\ UNCHANGED <<toolVars, fs, stateArg, config, tier, op, state, loaded, preIdx, attempt,
                 success, svFrom, svPath, svRet, result, trace, failedAt,
                 resumed, calls, prev, durable>>

\* deploy_stage lines 375-379
DeployStageLocks ==
  /\ pc = "ds_locks"
  /\ IF cur.check_locks
     THEN \E locks \in [1..LockRetries -> BOOLEAN] :
            /\ trace' = Append(trace, Event("lock", cur.name, 1, 0, LockFilesDid(locks)))
            /\ IF CheckTransientLocks(locks)
               THEN /\ pc' = "ds_pre"
                    /\ preIdx' = 1
                    /\ UNCHANGED <<success, failedAt>>
               ELSE /\ success' = "False"
                    /\ failedAt' = cur.name
                    /\ pc' = "ds_return"
                    /\ UNCHANGED preIdx
     ELSE /\ pc' = "ds_pre"
          /\ preIdx' = 1
          /\ UNCHANGED <<trace, success, failedAt>>
  /\ UNCHANGED <<toolVars, fs, stateArg, config, tier, op, state, loaded, i, cur, attempt,
                 svFrom, svPath, svRet, result, resumed, calls, prev, durable>>

\* deploy_stage lines 382-388
DeployStagePre ==
  /\ pc = "ds_pre"
  /\ IF preIdx > cur.pre_commands
     THEN /\ pc' = "rr_loop"
          /\ attempt' = 0
          /\ UNCHANGED <<preIdx, trace, success, failedAt>>
     ELSE \E rc \in {0, 1} :
            IF rc # 0
            THEN /\ trace' = Append(trace, Event("pre", cur.name, preIdx, 0, "nonzero"))
                 /\ success' = "False"
                 /\ failedAt' = cur.name
                 /\ pc' = "ds_return"
                 /\ UNCHANGED <<preIdx, attempt>>
            ELSE /\ trace' = Append(trace, Event("pre", cur.name, preIdx, 0, "zero"))
                 /\ preIdx' = preIdx + 1
                 /\ UNCHANGED <<pc, attempt, success, failedAt>>
  /\ UNCHANGED <<toolVars, fs, stateArg, config, tier, op, state, loaded, i, cur,
                 svFrom, svPath, svRet, result, resumed, calls, prev, durable>>

\* run_ansible_with_retry lines 292-299 / 324-331 and 356-357
RetryLoop ==
  /\ pc = "rr_loop"
  /\ IF Exhausted(attempt, cur.retries)
     THEN /\ success' = "False"
          /\ failedAt' = cur.name
          /\ pc' = "ds_return"
          /\ UNCHANGED trace
     ELSE /\ trace' = Append(trace, Event("exec", cur.name, attempt,
                                          AttemptTimeout(cur.timeout, attempt), "running"))
          /\ pc' = "rr_wait"
          /\ UNCHANGED <<success, failedAt>>
  /\ UNCHANGED <<toolVars, fs, stateArg, config, tier, op, state, loaded, i, cur, preIdx,
                 attempt, svFrom, svPath, svRet, result, resumed, calls, prev,
                 durable>>

\* the executor subprocess ends; run_ansible_with_retry lines 301-321 / 333-354
ExecutorReturns ==
  /\ pc = "rr_wait"
  /\ \E out \in ExecOutcomes :
       /\ (out = "gateway_timeout") => ~cur.async
       /\ (out = "abandoned") => cur.async
       /\ trace' = SetLastOutcome(trace, out)
       /\ CASE RetryVerdict(cur.async, out) = "return_true" ->
                 /\ pc' = "ds_record"
                 /\ UNCHANGED <<attempt, success, failedAt>>
            [] RetryVerdict(cur.async, out) = "continue" ->
                 /\ attempt' = attempt + 1
                 /\ pc' = "rr_loop"
                 /\ UNCHANGED <<success, failedAt>>
            [] OTHER ->
                 /\ success' = "False"
                 /\ failedAt' = cur.name
                 /\ pc' = "ds_return"
                 /\ UNCHANGED attempt
  /\ UNCHANGED <<toolVars, fs, stateArg, config, tier, op, state, loaded, i, cur, preIdx,
                 svFrom, svPath, svRet, result, resumed, calls, prev, durable>>

\* run_ansible_async lines 249-263 and 280-282: leaving the `with` block waits
\* for run_process, which loops until the subprocess ends; nothing kills it
ExecutorHangs ==
  /\ pc = "rr_wait"
  /\ cur.async
  /\ pc' = "hung"
  /\ UNCHANGED <<toolVars, fs, stateArg, config, tier, op, state, loaded, i, cur, preIdx,
                 attempt, success, svFrom, svPath, svRet, result, trace,
                 failedAt, resumed, calls, prev, durable>>

\* deploy_stage lines 398-406: state['stages'] raises KeyError on {}
DeployStageRecord ==
  /\ pc = "ds_record"
  /\ IF ~state.has
     THEN /\ result' = "KeyError"
          /\ pc' = "done"
          /\ UNCHANGED <<state, svFrom, svPath, svRet>>
     ELSE /\ state' = RecordCompleted(state, cur.name)
          /\ svFrom' = "deploy_stage"
          /\ svPath' = SavePathUsed(stateArg)
          /\ svRet' = "none"
          /\ pc' = "sv_rename"
          /\ UNCHANGED result
  /\ UNCHANGED <<toolVars, fs, stateArg, config, tier, op, loaded, i, cur, preIdx,
                 attempt, success, trace, failedAt, resumed, calls, prev,
                 durable>>

\* save_deployment_state lines 33-40: stamp, then move the old file aside
SaveRename ==
  /\ pc = "sv_rename"
  /\ state' = [state EXCEPT !.last_updated = TRUE]
  /\ IF Exists(fs, svPath)
     THEN \/ /\ fs' = Rename(fs, svPath, BackupOf(svPath))
             /\ pc' = "sv_write"
             /\ UNCHANGED svRet
          \/ /\ svRet' = "False"        \* rename raises
             /\ pc' = "sv_return"
             /\ UNCHANGED fs
     ELSE /\ pc' = "sv_write"
          /\ UNCHANGED <<fs, svRet>>
  /\ UNCHANGED <<toolVars, stateArg, config, tier, op, loaded, i, cur, preIdx, attempt,
                 success, svFrom, svPath, result, trace, failedAt, resumed,
                 calls, prev, durable>>

\* save_deployment_state lines 42-47
SaveWrite ==
  /\ pc = "sv_write"
  /\ \E w \in {"ok", "open_fails", "dump_fails"} :
       CASE w = "ok" ->
              /\ fs' = [fs EXCEPT ![svPath] = JsonFile(state)]
              /\ svRet' = "True"
         [] w = "open_fails" ->
              /\ svRet' = "False"
              /\ UNCHANGED fs
         [] OTHER ->
              /\ fs' = [fs EXCEPT ![svPath] = TornFile]
              /\ svRet' = "False"
  /\ pc' = "sv_return"
  /\ UNCHANGED <<toolVars, stateArg, config, tier, op, state, loaded, i, cur, preIdx,
                 attempt, success, svFrom, svPath, result, trace, failedAt,
                 resumed, calls, prev, durable>>

\* back in the caller: deploy_stage lines 407 (falls off the end: None),
\* resume_deployment line 542
SaveReturn ==
  /\ pc = "sv_return"
  /\ IF svFrom = "deploy_stage"
     THEN /\ success' = "None"
          /\ pc' = "ds_return"
     ELSE /\ pc' = "rs_config"
          /\ UNCHANGED success
  /\ UNCHANGED <<toolVars, fs, stateArg, config, tier, op, state, loaded, i, cur, preIdx,
                 attempt, svFrom, svPath, svRet, result, trace, failedAt,
                 resumed, calls, prev, durable>>

\* progressive_deployment lines 479-484
RunAllAfterStage ==
  /\ pc = "ds_return"
  /\ op = "RunAll"
  /\ IF NotSuccess(success)
     THEN /\ result' = "False"
          /\ pc' = "done"
          /\ UNCHANGED i
     ELSE /\ i' = i + 1
          /\ pc' = "ra_loop"
          /\ UNCHANGED result
  /\ UNCHANGED <<toolVars, fs, stateArg, config, tier, op, state, loaded, cur, preIdx,
                 attempt, success, svFrom, svPath, svRet, trace, failedAt,
                 resumed, calls, prev, durable>>

\* progressive_deployment lines 486-499
RunAllFinal ==
  /\ pc = "ra_final"
  /\ result' = IF NumStages = 0 THEN "ZeroDivisionError"
               ELSE IF CompletedCount(LoadState(fs, FinalLoadPath(stateArg))) = NumStages
               THEN "True" ELSE "False"
  /\ pc' = "done"
  /\ UNCHANGED <<toolVars, fs, stateArg, config, tier, op, state, loaded, i, cur, preIdx,
                 attempt, success, svFrom, svPath, svRet, trace, failedAt,
                 resumed, calls, prev, durable>>

\* resume_deployment lines 522-535
StartResume ==
  /\ BeginCall("Resume")
  /\ resumed' = FirstFailed(LoadState(fs, stateArg).stages)
  /\ pc' = IF FirstFailed(LoadState(fs, stateArg).stages) = None THEN "rs_none" ELSE "rs_mark"
  /\ i' = 0

\* resume_deployment lines 531-533
ResumeNothing ==
  /\ pc = "rs_none"
  /\ result' = "False"
  /\ pc' = "done"
  /\ UNCHANGED <<toolVars, fs, stateArg, config, tier, op, state, loaded, i, cur, preIdx,
                 attempt, success, svFrom, svPath, svRet, trace, failedAt,
                 resumed, calls, prev, durable>>

\* resume_deployment lines 537-540
ResumeMark ==
  /\ pc = "rs_mark"
  /\ state' = MarkInProgress(state, resumed)
  /\ svFrom' = "resume"
  /\ svPath' = SavePathUsed(stateArg)
  /\ svRet' = "none"
  /\ pc' = "sv_rename"
  /\ UNCHANGED <<toolVars, fs, stateArg, config, tier, op, loaded, i, cur, preIdx,
                 attempt, success, result, trace, failedAt, resumed, calls,
                 prev, durable>>

\* resume_deployment lines 542-555
ResumeFindConfig ==
  /\ pc = "rs_config"
  /\ IF resumed \in StageIds
     THEN /\ cur' = RawStage(resumed, config)
          /\ pc' = "ds_locks"
          /\ UNCHANGED result
     ELSE /\ result' = "False"
          /\ pc' = "done"
          /\ UNCHANGED cur
  /\ UNCHANGED <<toolVars, fs, stateArg, config, tier, op, state, loaded, i, preIdx,
                 attempt, success, svFrom, svPath, svRet, trace, failedAt,
                 resumed, calls, prev, durable>>

\* resume_deployment lines 558-565
ResumeAfterStage ==
  /\ pc = "ds_return"
  /\ op = "Resume"
  /\ result' = IF success = "True" THEN "True" ELSE "False"
  /\ pc' = "done"
  /\ UNCHANGED <<toolVars, fs, stateArg, config, tier, op, state, loaded, i, cur, preIdx,
                 attempt, success, svFrom, svPath, svRet, trace, failedAt,
                 resumed, calls, prev, durable>>

\* the controller process dies (kill, power loss); files stay as they are
Crash ==
  /\ pc \notin {"idle", "done", "crashed"}
  /\ durable' = IF /\ pc = "ds_return"
                   /\ svRet = "True"
                   /\ StatusOf(state, cur.name) = "completed"
                THEN cur.name ELSE None
  /\ pc' = "crashed"
  /\ state' = EmptyState
  /\ loaded' = EmptyState
  /\ i' = 0
  /\ cur' = NoStage
  /\ preIdx' = 0
  /\ attempt' = 0
  /\ success' = "none"
  /\ svFrom' = "none"
  /\ svRet' = "none"
  /\ result' = "none"
  /\ trace' = <<>>
  /\ failedAt' = None
  /\ resumed' = None
  /\ UNCHANGED <<toolVars, fs, stateArg, config, tier, op, svPath, calls, prev>>

Next ==
  \/ StartRunAll
  \/ RunAllLoop
  \/ DeployStageLocks
  \/ DeployStagePre
  \/ RetryLoop
  \/ ExecutorReturns
  \/ ExecutorHangs
  \/ DeployStageRecord
  \/ SaveRename
  \/ SaveWrite
  \/ SaveReturn
  \/ RunAllAfterStage
  \/ RunAllFinal
  \/ StartResume
  \/ ResumeNothing
  \/ ResumeMark
  \/ ResumeFindConfig
  \/ ResumeAfterStage
  \/ Crash

Spec == Init /\ [][Next]_vars

TypeOK ==
  /\ pc \in {"idle", "done", "crashed", "hung", "ra_loop", "ra_final", "ds_locks",
             "ds_pre", "rr_loop", "rr_wait", "ds_record", "ds_return",
             "sv_rename", "sv_write", "sv_return", "rs_none", "rs_mark", "rs_config"}
  /\ success \in {"none", "True", "False", "None"}
  /\ result \in {"none", "True", "False", "KeyError", "ZeroDivisionError"}
  /\ calls \in 0..MaxCalls

\* ------------------------------------- one stage under every kind of config
\* most retries and pre_commands a stage config sets here
MaxRetries == 2
MaxPreCommands == 2

\* stage configs that leave timeout, retries and async unset or set them, with
\* and without the lock check, with no pre_command and with several
DeployStageOptions ==
  {StageOption(t, r, a, l, p) :
     t \in {Unset, 100}, r \in {Unset} \cup (0..MaxRetries),
     a \in {"unset", "true", "false"}, l \in BOOLEAN, p \in 0..MaxPreCommands}

\* a RunAll with no state file, on a machine of any tier
InitDeployStage ==
  /\ CaptureIdle
  /\ stateArg = DefaultFile
  /\ fs = [p \in Paths |-> AbsentFile]
  /\ config \in DeployStageOptions
  /\ tier \in Tiers
  /\ ControllerAtRest
  /\ ReconcileIdle /\ DriftIdle /\ IdempotenceIdle /\ HardwareIdle
  /\ tpc = NotRun

\* the run up to the return of run_ansible_with_retry for its first stage
NextDeployStage ==
  \/ StartRunAll
  \/ RunAllLoop
  \/ DeployStageLocks
  \/ DeployStagePre
  \/ RetryLoop
  \/ ExecutorReturns
  \/ ExecutorHangs

SpecDeployStage == InitDeployStage /\ [][NextDeployStage]_vars

\* the same run with a controller that takes every step it can take
SpecDeployStageFair ==
  InitDeployStage /\ [][NextDeployStage]_vars /\ WF_vars(NextDeployStage)

\* the same run with an executor that ends every time it is invoked
NextExecutorEnds ==
  \/ StartRunAll
  \/ RunAllLoop
  \/ DeployStageLocks
  \/ DeployStagePre
  \/ RetryLoop
  \/ ExecutorReturns

SpecExecutorEnds ==
  InitDeployStage /\ [][NextExecutorEnds]_vars /\ WF_vars(NextExecutorEnds)

\* ------------------------------------------------- state_reconciliation.py
\* hosts of the inventory
NumHosts == 2

Hosts == 1..NumHosts

\* a key a dict does not have: dict.get gives None, `in` gives False
Missing == "missing"

\* the ansible_facts the tools read
Facts(d, v, k, py, mem, cores) ==
  [ansible_distribution |-> d, ansible_distribution_version |-> v,
   ansible_kernel |-> k, ansible_python_version |-> py,
   ansible_memtotal_mb |-> mem, ansible_processor_cores |-> cores]

\* facts.get('ansible_facts', {}) of a file without ansible_facts
NoFacts == Facts(Missing, Missing, Missing, Missing, Missing, Missing)

\* a file of a snapshot directory: "absent", "torn" (not JSON) or "json"
File(k, d) == [kind |-> k, data |-> d]

\* an element of <host>_configs.json (_save_config_hashes lines 90-93)
ConfigEntry(f, h) == [file |-> f, hash |-> h]

HostFiles(f, c, s) == [facts |-> f, configs |-> c, services |-> s]

NoHost == HostFiles(File("absent", NoFacts), File("absent", <<>>), File("absent", <<>>))

\* what a snapshot holds for one host: nothing; a base host; the base host
\* after an upgrade; a host of another distribution; a host whose facts and
\* services files are cut short; an unreachable host with a cut configs file
HostStates ==
  {NoHost,
   HostFiles(File("json", Facts("Ubuntu", "22.04", "5.15", "3.10", "2048", "2")),
             File("json", <<ConfigEntry("/etc/a.conf", "x")>>),
             File("json", <<"nginx.service", "sshd.service">>)),
   HostFiles(File("json", Facts("Ubuntu", "22.04", "6.1", "3.10", "4096", "2")),
             File("json", <<ConfigEntry("/etc/a.conf", "y"), ConfigEntry("/etc/b.conf", "x")>>),
             File("json", <<"nginx.service">>)),
   HostFiles(File("json", Facts("CentOS", "9", "5.14", "3.9", "2048", "2")),
             File("json", <<ConfigEntry("/etc/b.conf", "x")>>),
             File("json", <<"sshd.service", "cron.service">>)),
   HostFiles(File("torn", NoFacts),
             File("json", <<ConfigEntry("/etc/a.conf", "x")>>),
             File("torn", <<>>)),
   HostFiles(File("json", Facts("Ubuntu", Missing, Missing, Missing, Missing, Missing)),
             File("torn", <<>>),
             File("json", <<>>))}

\* a snapshot directory: dirs says whether facts/, configs/ and services/ exist
NoSnapshot == [dirs |-> FALSE, hosts |-> [h \in Hosts |-> NoHost]]

Snapshots == {[dirs |-> TRUE, hosts |-> hs] : hs \in [Hosts -> HostStates]} \cup {NoSnapshot}

\* glob over one directory: the hosts that have a file there
HostsWith(snap, cat) == {h \in Hosts : snap.hosts[h][cat].kind # "absent"}

\* json.loads does not raise
Parses(file) == file.kind = "json"

\* _compare_facts lines 180-183
CompareKeyFields ==
  {"ansible_distribution", "ansible_kernel", "ansible_memtotal_mb", "ansible_processor_cores"}

\* entries of a changes list; an entry of lines 201-204, 254-257, 299-302 has
\* only host and error
FactChange(h, e, f, b, a) == [host |-> h, error |-> e, field |-> f, before |-> b, after |-> a]

ConfigChange(h, e, f, t, b, a) ==
  [host |-> h, error |-> e, file |-> f, type |-> t, before_hash |-> b, after_hash |-> a]

ServiceChange(h, e, s, t) == [host |-> h, error |-> e, service |-> s, type |-> t]

\* _compare_facts lines 161-206; a changes list holds no entry twice, so it is
\* kept as a set and len() is its cardinality
CompareFacts(before, after) ==
  IF ~before.dirs \/ ~after.dirs THEN {}
  ELSE UNION {
    LET bf == before.hosts[h].facts
        af == after.hosts[h].facts
    IN IF ~Parses(bf) \/ ~Parses(af)
       THEN {FactChange(h, TRUE, Missing, Missing, Missing)}
       ELSE {FactChange(h, FALSE, f, bf.data[f], af.data[f]) :
               f \in {g \in CompareKeyFields :
                        /\ bf.data[g] # Missing /\ af.data[g] # Missing
                        /\ bf.data[g] # af.data[g]}}
    : h \in {g \in HostsWith(before, "facts") : after.hosts[g].facts.kind # "absent"}}

\* {c['file']: c['hash'] for c in configs}.get(f): the last entry of f wins
HashOf(configs, f) ==
  LET idx == {k \in DOMAIN configs : configs[k].file = f}
  IN IF idx = {} THEN Missing
     ELSE configs[CHOOSE k \in idx : \A j \in idx : j <= k].hash

FilesOf(configs) == {configs[k].file : k \in DOMAIN configs}

\* a differ that takes a file gone for a file changed
ChangeTypeNoRemoval(before_hash, after_hash) ==
  IF before_hash = Missing THEN "added" ELSE "modified"

\* _compare_configs lines 236-241
ChangeType(before_hash, after_hash) ==
  IF before_hash = Missing THEN "added"
  ELSE IF after_hash = Missing THEN "removed"
  ELSE "modified"

\* _compare_configs lines 208-260
CompareConfigs(before, after) ==
  IF ~before.dirs \/ ~after.dirs THEN {}
  ELSE UNION {
    LET bc == before.hosts[h].configs
        ac == after.hosts[h].configs
    IN IF ~Parses(bc) \/ ~Parses(ac)
       THEN {ConfigChange(h, TRUE, Missing, Missing, Missing, Missing)}
       ELSE {ConfigChange(h, FALSE, f, ChangeType(HashOf(bc.data, f), HashOf(ac.data, f)),
                          HashOf(bc.data, f), HashOf(ac.data, f)) :
               f \in {g \in FilesOf(bc.data) \cup FilesOf(ac.data) :
                        HashOf(bc.data, g) # HashOf(ac.data, g)}}
    : h \in {g \in HostsWith(before, "configs") : after.hosts[g].configs.kind # "absent"}}

\* set(json.loads(...)) of a services file
ServiceSet(services) == {services[k] : k \in DOMAIN services}

\* a differ that reports every running service as started
AddedServicesAll(before_services, after_services) == after_services

\* _compare_services line 283
AddedServices(before_services, after_services) == after_services \ before_services

\* _compare_services lines 262-306
CompareServices(before, after) ==
  IF ~before.dirs \/ ~after.dirs THEN {}
  ELSE UNION {
    LET bsv == before.hosts[h].services
        asv == after.hosts[h].services
    IN IF ~Parses(bsv) \/ ~Parses(asv)
       THEN {ServiceChange(h, TRUE, Missing, Missing)}
       ELSE {ServiceChange(h, FALSE, s, "started") :
               s \in AddedServices(ServiceSet(bsv.data), ServiceSet(asv.data))}
            \cup {ServiceChange(h, FALSE, s, "stopped") :
               s \in ServiceSet(bsv.data) \ ServiceSet(asv.data)}
    : h \in {g \in HostsWith(before, "services") : after.hosts[g].services.kind # "absent"}}

\* compare_snapshots lines 119-159
CompareSnapshots(before, after) ==
  LET f == CompareFacts(before, after)
      c == CompareConfigs(before, after)
      s == CompareServices(before, after)
  IN [facts |-> f, configs |-> c, services |-> s,
      total_changes |-> Cardinality(f) + Cardinality(c) + Cardinality(s)]

\* check_multi_node_consistency lines 339-342
ConsistencyKeyFields ==
  {"ansible_distribution", "ansible_distribution_version", "ansible_kernel",
   "ansible_python_version"}

\* the keys of all_facts (lines 326-332): hosts whose facts file parses
AllFacts(snap) == {h \in HostsWith(snap, "facts") : Parses(snap.hosts[h].facts)}

\* a grouping that takes a host without the field for a host with value None
ValuesOfEveryHost(snap, field) ==
  {[value |-> v,
    hosts |-> {h \in AllFacts(snap) : snap.hosts[h].facts.data[field] = v}] :
     v \in {snap.hosts[h].facts.data[field] : h \in AllFacts(snap)}}

\* the dict `values` of lines 345-351 for one field, as value/hosts pairs
ValuesOf(snap, field) ==
  LET carrying == {h \in AllFacts(snap) : snap.hosts[h].facts.data[field] # Missing}
  IN {[value |-> v,
       hosts |-> {h \in carrying : snap.hosts[h].facts.data[field] = v}] :
        v \in {snap.hosts[h].facts.data[field] : h \in carrying}}

\* entries of the issues list: the texts of lines 322 and 335, the dict of
\* lines 355-358 and the dict of lines 384-388
Issue(t, f, vals, h, ms) ==
  [type |-> t, field |-> f, inconsistent_values |-> vals, host |-> h, missing_services |-> ms]

\* the keys of all_services (lines 364-371)
AllServices(snap) == {h \in HostsWith(snap, "services") : Parses(snap.hosts[h].services)}

\* common_services after the loop of lines 375-380
CommonServices(snap) ==
  {s \in UNION {ServiceSet(snap.hosts[h].services.data) : h \in AllServices(snap)} :
     \A h \in AllServices(snap) : s \in ServiceSet(snap.hosts[h].services.data)}

\* all_services[h] after that loop: common_services is the set object of the
\* first host, and &= shrinks it in place
ServicesAfterLoop(snap, first, h) ==
  IF h = first THEN CommonServices(snap) ELSE ServiceSet(snap.hosts[h].services.data)

\* check_multi_node_consistency lines 308-397; first is the host whose
\* services file the glob of line 365 yields first
CheckMultiNodeConsistency(snap, first) ==
  IF ~snap.dirs
  THEN [consistent |-> FALSE,
        issues |-> {Issue("No facts directory found", Missing, {}, None, {})}]
  ELSE IF Cardinality(AllFacts(snap)) < 2
  THEN [consistent |-> TRUE,
        issues |-> {Issue("Need at least 2 hosts for consistency check", Missing, {}, None, {})}]
  ELSE
    LET fields == {Issue("field", f, ValuesOf(snap, f), None, {}) :
                     f \in {g \in ConsistencyKeyFields : Cardinality(ValuesOf(snap, g)) > 1}}
        missing(h) == CommonServices(snap) \ ServicesAfterLoop(snap, first, h)
        services == IF Cardinality(AllServices(snap)) > 1
                    THEN {Issue("missing_services", Missing, {}, h, missing(h)) :
                            h \in {g \in AllServices(snap) : missing(g) # {}}}
                    ELSE {}
    IN [consistent |-> fields = {} /\ services = {}, issues |-> fields \cup services]

InitReconcile ==
  /\ CaptureIdle
  /\ ControllerIdle
  /\ DriftIdle /\ IdempotenceIdle /\ HardwareIdle
  /\ pre_snapshot \in Snapshots
  /\ post_snapshot \in Snapshots
  /\ differences = NotRun
  /\ post_consistency = NotRun
  /\ tpc = "compare"

\* run_reconciliation_test line 426, main line 495
Compare ==
  /\ tpc = "compare"
  /\ differences' = CompareSnapshots(pre_snapshot, post_snapshot)
  /\ tpc' = "compared"
  /\ UNCHANGED <<controllerVars, captureVars, pre_snapshot, post_snapshot, post_consistency,
                 baseline, current, changes, drift_analysis, results,
                 idempotence_analysis, cpu_count, memory_total, hardware_profile,
                 optimizations>>

\* run_reconciliation_test line 429 (after the comparison), main line 507 (alone)
Check ==
  /\ tpc \in {"compare", "compared"}
  /\ \E first \in Hosts :
       post_consistency' = CheckMultiNodeConsistency(post_snapshot, first)
  /\ tpc' = IF tpc = "compare" THEN "checked" ELSE "reported"
  /\ UNCHANGED <<controllerVars, captureVars, pre_snapshot, post_snapshot, differences,
                 baseline, current, changes, drift_analysis, results,
                 idempotence_analysis, cpu_count, memory_total, hardware_profile,
                 optimizations>>

NextReconcile == Compare \/ Check

SpecReconcile == InitReconcile /\ [][NextReconcile]_vars

\* ------------------------------------------------------ test_idempotence.py
\* a key of a dict of a quick state with its value, or the key not there
Key(p, d) == [present |-> p, data |-> d]

\* what a quick state holds for one host (configs[host] as the list of its
\* items, services[host]): the host in neither dict; a base host; the base
\* host changed; the host with nothing found; a host of another kind
QuickHostStates ==
  {[configs |-> Key(FALSE, <<>>), services |-> Key(FALSE, <<>>)],
   [configs |-> Key(TRUE, <<ConfigEntry("/etc/a.conf", "x")>>),
    services |-> Key(TRUE, <<"nginx.service", "sshd.service">>)],
   [configs |-> Key(TRUE, <<ConfigEntry("/etc/a.conf", "y"), ConfigEntry("/etc/b.conf", "x")>>),
    services |-> Key(TRUE, <<"nginx.service">>)],
   [configs |-> Key(TRUE, <<>>), services |-> Key(TRUE, <<>>)],
   [configs |-> Key(TRUE, <<ConfigEntry("/etc/b.conf", "x")>>),
    services |-> Key(TRUE, <<"sshd.service", "cron.service">>)]}

\* the state _capture_quick_state returns (lines 103-108), a baseline file
QuickState(hs) ==
  [configs |-> [h \in Hosts |-> hs[h].configs], services |-> [h \in Hosts |-> hs[h].services]]

QuickStates == {QuickState(hs) : hs \in [Hosts -> QuickHostStates]}

\* set(pre.keys()) | set(post.keys())
KeysOf(pre, post) == {h \in Hosts : pre[h].present \/ post[h].present}

\* entries of the changes list (lines 267-274, 289-294, 297-302)
Change(h, t, x, ct, pre_hash, post_hash) ==
  [host |-> h, type |-> t, item |-> x, change_type |-> ct,
   pre_hash |-> pre_hash, post_hash |-> post_hash]

\* _analyze_state_changes lines 259-265
StateChangeType(pre_hash, post_hash) ==
  IF pre_hash = Missing THEN "added"
  ELSE IF post_hash = Missing THEN "removed"
  ELSE "modified"

\* _analyze_state_changes lines 240-304; dict.get(host, {}) of a host without
\* key is the empty dict, its items the empty list
AnalyzeStateChanges(pre_state, post_state) ==
  UNION {{Change(h, "config", f,
                 StateChangeType(HashOf(pre_state.configs[h].data, f),
                                 HashOf(post_state.configs[h].data, f)),
                 HashOf(pre_state.configs[h].data, f),
                 HashOf(post_state.configs[h].data, f)) :
            f \in {g \in FilesOf(pre_state.configs[h].data) \cup FilesOf(post_state.configs[h].data) :
                     HashOf(pre_state.configs[h].data, g) # HashOf(post_state.configs[h].data, g)}}
         : h \in KeysOf(pre_state.configs, post_state.configs)}
  \cup
  UNION {{Change(h, "service", s, "started", Missing, Missing) :
            s \in ServiceSet(post_state.services[h].data) \ ServiceSet(pre_state.services[h].data)}
         \cup
         {Change(h, "service", s, "stopped", Missing, Missing) :
            s \in ServiceSet(pre_state.services[h].data) \ ServiceSet(post_state.services[h].data)}
         : h \in KeysOf(pre_state.services, post_state.services)}

\* entries of drift_items (lines 480-488, 503-509, 512-518)
DriftItem(h, t, x, dt, baseline_hash, current_hash, sev) ==
  [host |-> h, type |-> t, item |-> x, drift_type |-> dt,
   baseline_hash |-> baseline_hash, current_hash |-> current_hash, severity |-> sev]

\* a drift detector that takes a file gone for a file changed
DriftTypeNoRemoval(baseline_hash, current_hash) ==
  IF baseline_hash = Missing THEN "added" ELSE "modified"

\* _analyze_configuration_drift lines 472-478
DriftType(baseline_hash, current_hash) ==
  IF baseline_hash = Missing THEN "added"
  ELSE IF current_hash = Missing THEN "removed"
  ELSE "modified"

\* a drift whose every config item is MEDIUM
ConfigSeverityFlat(drift_type) == "MEDIUM"

\* line 487
ConfigSeverity(drift_type) == IF drift_type = "modified" THEN "HIGH" ELSE "MEDIUM"

\* _analyze_configuration_drift lines 452-529: drift_items
AnalyzeConfigurationDrift(base, now) ==
  UNION {{DriftItem(h, "config_drift", f,
                    DriftType(HashOf(base.configs[h].data, f), HashOf(now.configs[h].data, f)),
                    HashOf(base.configs[h].data, f), HashOf(now.configs[h].data, f),
                    ConfigSeverity(DriftType(HashOf(base.configs[h].data, f),
                                             HashOf(now.configs[h].data, f)))) :
            f \in {g \in FilesOf(base.configs[h].data) \cup FilesOf(now.configs[h].data) :
                     HashOf(base.configs[h].data, g) # HashOf(now.configs[h].data, g)}}
         : h \in KeysOf(base.configs, now.configs)}
  \cup
  UNION {{DriftItem(h, "service_drift", s, "started", Missing, Missing, "MEDIUM") :
            s \in ServiceSet(now.services[h].data) \ ServiceSet(base.services[h].data)}
         \cup
         {DriftItem(h, "service_drift", s, "stopped", Missing, Missing, "HIGH") :
            s \in ServiceSet(base.services[h].data) \ ServiceSet(now.services[h].data)}
         : h \in KeysOf(base.services, now.services)}

InitDrift ==
  /\ CaptureIdle
  /\ ControllerIdle
  /\ ReconcileIdle /\ IdempotenceIdle /\ HardwareIdle
  /\ baseline \in QuickStates
  /\ current \in QuickStates
  /\ changes = NotRun
  /\ drift_analysis = NotRun
  /\ tpc = "quick"

\* test_idempotence line 46 on a pre_state and a post_state
Analyze ==
  /\ tpc = "quick"
  /\ changes' = AnalyzeStateChanges(baseline, current)
  /\ tpc' = "analyzed"
  /\ UNCHANGED <<controllerVars, captureVars, pre_snapshot, post_snapshot, differences,
                 post_consistency, baseline, current, drift_analysis, results,
                 idempotence_analysis, cpu_count, memory_total, hardware_profile,
                 optimizations>>

\* detect_configuration_drift line 442 on a baseline and a current state,
\* which may be the states the differ has been run on
DetectDrift ==
  /\ tpc \in {"quick", "analyzed"}
  /\ drift_analysis' = AnalyzeConfigurationDrift(baseline, current)
  /\ tpc' = IF tpc = "quick" THEN "drift" ELSE "both"
  /\ UNCHANGED <<controllerVars, captureVars, pre_snapshot, post_snapshot, differences,
                 post_consistency, baseline, current, changes, results,
                 idempotence_analysis, cpu_count, memory_total, hardware_profile,
                 optimizations>>

\* the differs of both tools and the drift detector, each on its own inputs
InitDiff == InitReconcile \/ InitDrift

NextDiff == Compare \/ Check \/ Analyze \/ DetectDrift

SpecDiff == InitDiff /\ [][NextDiff]_vars

\* most iterations a test is run with
MaxIterations == 3

\* exit codes of ansible-playbook: all fine, hosts failed
ReturnCodes == {0, 2}

\* what the quick states around an iteration hold for the one host they
\* cover: nothing found; a config file; the file changed and a service running
IterationHostStates ==
  {[configs |-> Key(TRUE, <<>>), services |-> Key(TRUE, <<>>)],
   [configs |-> Key(TRUE, <<ConfigEntry("/etc/a.conf", "x")>>), services |-> Key(TRUE, <<>>)],
   [configs |-> Key(TRUE, <<ConfigEntry("/etc/a.conf", "y")>>),
    services |-> Key(TRUE, <<"nginx.service">>)]}

IterationStates ==
  {QuickState([h \in Hosts |->
                 IF h = 1 THEN q
                 ELSE [configs |-> Key(FALSE, <<>>), services |-> Key(FALSE, <<>>)]]) :
     q \in IterationHostStates}

\* what _extract_changed_tasks finds in the output of an iteration (lines
\* 325-329): no task changed, one task changed on host 1
ChangedTaskLists == {<<>>, <<[host |-> 1, task |-> "Install nginx"]>>}

\* a run that is never taken for failed
SucceededAlways(returncode) == TRUE

\* line 54
Succeeded(returncode) == returncode = 0

\* iteration_result of lines 51-59, without the states it stores
IterationResult(n, rc, ch, tasks) ==
  [iteration |-> n, returncode |-> rc, success |-> Succeeded(rc), changes |-> ch,
   changed_tasks |-> tasks]

\* change keys that name the host only
ChangeKeysByHost(chs) == {<<c.host>> : c \in chs}

\* lines 349-352, 355-358: the keys host:type:file-or-service of a changes list
ChangeKeys(chs) == {<<c.host, c.type, c.item>> : c \in chs}

\* lines 370-373, 376-379: the keys host:task of a changed_tasks list
TaskKeys(tasks) == {<<tasks[k].host, tasks[k].task>> : k \in DOMAIN tasks}

\* entries of the issues list (lines 340-344, 361-367, 382-388)
IdempotenceIssue(t, sev, n, diff) ==
  [type |-> t, severity |-> sev, iteration |-> n, differences |-> diff]

\* _analyze_idempotence lines 333-413; execution_failure names no iteration
\* and carries no differences
AnalyzeIdempotence(rs) ==
  LET failed == {k \in DOMAIN rs : ~rs[k].success}
      failure == IF failed # {}
                 THEN {IdempotenceIssue("execution_failure", "HIGH", None, {})}
                 ELSE {}
      later == IF Len(rs) > 1 THEN 2..Len(rs) ELSE {}
      first_changes == ChangeKeys(rs[1].changes)
      first_tasks == TaskKeys(rs[1].changed_tasks)
      inconsistent_changes ==
        {IdempotenceIssue("inconsistent_changes", "HIGH", k,
                          (ChangeKeys(rs[k].changes) \ first_changes)
                            \cup (first_changes \ ChangeKeys(rs[k].changes))) :
           k \in {j \in later : ChangeKeys(rs[j].changes) # first_changes}}
      inconsistent_tasks ==
        {IdempotenceIssue("inconsistent_tasks", "MEDIUM", k,
                          (TaskKeys(rs[k].changed_tasks) \ first_tasks)
                            \cup (first_tasks \ TaskKeys(rs[k].changed_tasks))) :
           k \in {j \in later : TaskKeys(rs[j].changed_tasks) # first_tasks}}
      issues == failure \cup inconsistent_changes \cup inconsistent_tasks
      penalty == 10 * Cardinality(issues)
  IN [idempotent |-> Cardinality(issues) = 0,
      issues |-> issues,
      consistency_score |-> IF penalty > 100 THEN 0 ELSE 100 - penalty]

InitIdempotence ==
  /\ CaptureIdle
  /\ ControllerIdle
  /\ ReconcileIdle /\ DriftIdle /\ HardwareIdle
  /\ results = <<>>
  /\ idempotence_analysis = NotRun
  /\ tpc = "iterating"

\* test_idempotence lines 33-62: one more iteration
Iteration ==
  /\ tpc = "iterating"
  /\ Len(results) < MaxIterations
  /\ \E pre_state \in IterationStates, post_state \in IterationStates,
        rc \in ReturnCodes, tasks \in ChangedTaskLists :
       results' = Append(results,
                         IterationResult(Len(results) + 1, rc,
                                         AnalyzeStateChanges(pre_state, post_state), tasks))
  /\ UNCHANGED <<controllerVars, captureVars, pre_snapshot, post_snapshot, differences,
                 post_consistency, baseline, current, changes, drift_analysis,
                 idempotence_analysis, cpu_count, memory_total, hardware_profile,
                 optimizations, tpc>>

\* test_idempotence line 73, after the iterations asked for
Analysis ==
  /\ tpc = "iterating"
  /\ idempotence_analysis' = AnalyzeIdempotence(results)
  /\ tpc' = "analysis"
  /\ UNCHANGED <<controllerVars, captureVars, pre_snapshot, post_snapshot, differences,
                 post_consistency, baseline, current, changes, drift_analysis,
                 results, cpu_count, memory_total, hardware_profile, optimizations>>

NextIdempotence == Iteration \/ Analysis

SpecIdempotence == InitIdempotence /\ [][NextIdempotence]_vars

\* ------------------------------------------------- detect_hardware_profile
\* largest os.cpu_count() of the machines looked at
MaxCpu == 17

\* os.cpu_count() may return None
CpuCounts == {None} \cup (1..MaxCpu)

\* memory.total of the machines looked at, in thousandths of a GiB, on both
\* sides of every threshold
MemoryTotals ==
  {3906, 7994, 7996, 8000, 15994, 15996, 16000, 31994, 31996, 32000, 62800}

\* round(memory_gb, 2) of line 125, on thousandths
Round2(m) == ((m + 5) \div 10) * 10

\* Python truth of a number or None
Truthy(x) == x # None /\ x # 0

\* thresholds that a machine has to exceed
ProfileTypeStrict(cpu, memory_gb) ==
  IF (Truthy(cpu) /\ cpu > 16) /\ (Truthy(memory_gb) /\ memory_gb > 32000)
    THEN "high_performance"
  ELSE IF (Truthy(cpu) /\ cpu > 8) /\ (Truthy(memory_gb) /\ memory_gb > 16000)
    THEN "standard"
  ELSE IF (Truthy(cpu) /\ cpu > 4) /\ (Truthy(memory_gb) /\ memory_gb > 8000)
    THEN "minimal"
  ELSE "resource_constrained"

\* lines 135-142; memory_gb is the unrounded local of line 109
ProfileType(cpu, memory_gb) ==
  IF (Truthy(cpu) /\ cpu >= 16) /\ (Truthy(memory_gb) /\ memory_gb >= 32000)
    THEN "high_performance"
  ELSE IF (Truthy(cpu) /\ cpu >= 8) /\ (Truthy(memory_gb) /\ memory_gb >= 16000)
    THEN "standard"
  ELSE IF (Truthy(cpu) /\ cpu >= 4) /\ (Truthy(memory_gb) /\ memory_gb >= 8000)
    THEN "minimal"
  ELSE "resource_constrained"

\* the profile of lines 122-146, the fields the tier is about
DetectedProfile(cpu, total) ==
  [type |-> ProfileType(cpu, total), cpu_count |-> cpu, memory_gb |-> Round2(total)]

\* the profile of lines 148-155: os.cpu_count() or 1, 4.0 GiB
FallbackProfile(cpu) ==
  [type |-> "unknown", cpu_count |-> IF Truthy(cpu) THEN cpu ELSE 1, memory_gb |-> 4000]

InitHardware ==
  /\ CaptureIdle
  /\ ControllerIdle
  /\ ReconcileIdle /\ DriftIdle /\ IdempotenceIdle
  /\ cpu_count \in CpuCounts
  /\ memory_total \in MemoryTotals
  /\ hardware_profile = NotRun
  /\ optimizations = NotRun
  /\ tpc = "detect"

\* detect_hardware_profile lines 100-155: the metrics are read, or a read raises
DetectHardwareProfile ==
  /\ tpc = "detect"
  /\ \/ hardware_profile' = DetectedProfile(cpu_count, memory_total)
     \/ hardware_profile' = FallbackProfile(cpu_count)
  /\ tpc' = "detected"
  /\ UNCHANGED <<controllerVars, captureVars, pre_snapshot, post_snapshot, differences,
                 post_consistency, baseline, current, changes, drift_analysis,
                 results, idempotence_analysis, cpu_count, memory_total,
                 optimizations>>

Min(a, b) == IF a < b THEN a ELSE b

\* optimize_for_hardware: ansible_forks (lines 164, 173, 181, 189, 197)
AnsibleForks(t, cpu) ==
  CASE t = "high_performance" -> Min(cpu, 20)
    [] t = "standard" -> Min(cpu, 10)
    [] t = "minimal" -> Min(cpu, 5)
    [] t = "resource_constrained" -> 2
    [] OTHER -> Min(cpu, 10)

\* optimize_for_hardware: parallel_stages (lines 168, 177)
ParallelStages(t) == IF t = "high_performance" THEN 2 ELSE 1

\* optimize_for_hardware lines 157-204; min(cpu_count, 10) of line 164 raises
\* on the None a detected profile may carry
OptimizeForHardware(profile) ==
  IF profile.cpu_count = None THEN "TypeError"
  ELSE [ansible_forks |-> AnsibleForks(profile.type, profile.cpu_count),
        timeout_multiplier |-> TimeoutMultiplier10(profile.type),
        retry_count |-> RetryCount(profile.type),
        async_enabled |-> AsyncEnabled(profile.type),
        parallel_stages |-> ParallelStages(profile.type)]

\* progressive_deployment line 454
Optimize ==
  /\ tpc = "detected"
  /\ optimizations' = OptimizeForHardware(hardware_profile)
  /\ tpc' = "optimized"
  /\ UNCHANGED <<controllerVars, captureVars, pre_snapshot, post_snapshot, differences,
                 post_consistency, baseline, current, changes, drift_analysis,
                 results, idempotence_analysis, cpu_count, memory_total,
                 hardware_profile>>

NextHardware == DetectHardwareProfile \/ Optimize

SpecHardware == InitHardware /\ [][NextHardware]_vars


\* ------------------------------------------------- capturing state snapshots
\* state_reconciliation.py capture_state_snapshot and test_idempotence.py
\* _capture_quick_state, called twice by independent invocations

MaxClock == 3

Capturers == {"first", "second"}

SnapshotNames == {"before", "after"}

NoTimestamp == -1

\* datetime.now().strftime("%Y%m%d_%H%M%S"): the whole seconds of the clock
Timestamp(now) == now \div 2

\* capture_state_snapshot lines 25-26: output_dir / f"{snapshot_name}_{timestamp}"
SnapshotDir(snapshot_name, now) ==
  [prefix |-> "", name |-> snapshot_name, timestamp |-> Timestamp(now)]

\* _capture_quick_state line 100: output_dir / f"state_{snapshot_name}"
QuickStateDir(snapshot_name) ==
  [prefix |-> "state_", name |-> snapshot_name, timestamp |-> NoTimestamp]

\* the queries in the order they are issued; the five key files of
\* _capture_quick_state are one section of its state
Queries(tool) ==
  IF tool = "capture_state_snapshot"
  THEN <<"facts", "configs", "services">>
  ELSE <<"configs", "services", "files">>

\* how a query can end: exit code 0, another exit code, subprocess.TimeoutExpired
\* (only where subprocess.run gets a timeout), any other exception (OSError
\* starting ansible, an error inside the parser)
QueryOutcomes(tool) ==
  IF tool = "capture_state_snapshot"
  THEN {"ok", "nonzero", "error"}
  ELSE {"ok", "nonzero", "timeout", "error"}

NotCalled == [tool |-> "none", dir |-> QuickStateDir("none"), issued |-> 0,
              sections |-> {}, ret |-> "not_called"]

\* the capture after its next query ended with outcome o.
\* capture_state_snapshot: check=True turns a non-zero exit into
\* CalledProcessError, caught per query (lines 39, 55, 70); anything else
\* leaves the function as an exception.
\* _capture_quick_state: one try block around all queries (lines 110-147);
\* a non-zero exit skips the section, an exception ends the queries and the
\* state collected so far is returned.
AfterQuery(c, o) ==
  LET q == Queries(c.tool)[c.issued + 1]
      last == c.issued + 1 = Len(Queries(c.tool))
  IN [c EXCEPT
        !.issued = c.issued + 1,
        !.sections = IF o = "ok" THEN c.sections \cup {q} ELSE c.sections,
        !.ret = IF c.tool = "capture_state_snapshot"
                THEN IF o = "error" THEN "raised"
                     ELSE IF last THEN "snapshot" ELSE "running"
                ELSE IF o \in {"timeout", "error"} \/ last THEN "snapshot"
                     ELSE "running"]

\* a query of capture_state_snapshot that succeeded writes its files under
\* the snapshot directory, over the files that are there
WriteSection(files, dir, q, who) ==
  {f \in files : ~(f.dir = dir /\ f.section = q)} \cup
  {[dir |-> dir, section |-> q, by |-> who]}

InitCapture ==
  /\ ControllerIdle
  /\ ReconcileIdle /\ DriftIdle /\ IdempotenceIdle /\ HardwareIdle
  /\ clock = 0
  /\ captures = [c \in Capturers |-> NotCalled]
  /\ snapshot_files = {}
  /\ output = NotRun /\ parsed = NotRun /\ runs = NotRun
  /\ tpc = "capture"

\* time passes
Tick ==
  /\ tpc = "capture"
  /\ clock < MaxClock
  /\ clock' = clock + 1
  /\ UNCHANGED <<controllerVars, pre_snapshot, post_snapshot, differences,
                 post_consistency, baseline, current, changes, drift_analysis,
                 results, idempotence_analysis, cpu_count, memory_total,
                 hardware_profile, optimizations, tpc, captures, snapshot_files,
                 output, parsed, runs>>

BeginCapture(tool, c, dir) ==
  /\ captures[c].ret = "not_called"
  /\ captures' = [captures EXCEPT ![c] =
                    [tool |-> tool, dir |-> dir, issued |-> 0, sections |-> {},
                     ret |-> "running"]]
  /\ UNCHANGED <<controllerVars, pre_snapshot, post_snapshot, differences,
                 post_consistency, baseline, current, changes, drift_analysis,
                 results, idempotence_analysis, cpu_count, memory_total,
                 hardware_profile, optimizations, tpc, clock, snapshot_files,
                 output, parsed, runs>>

\* capture_state_snapshot lines 25-27: mkdir(exist_ok=True) takes the
\* directory as it is when it exists
CaptureStateSnapshot ==
  /\ tpc = "capture"
  /\ \E c \in Capturers, n \in SnapshotNames :
       BeginCapture("capture_state_snapshot", c, SnapshotDir(n, clock))

\* _capture_quick_state lines 100-108
CaptureQuickState ==
  /\ tpc = "capture"
  /\ \E c \in Capturers, n \in SnapshotNames :
       BeginCapture("_capture_quick_state", c, QuickStateDir(n))

\* capture_state_snapshot lines 31-73: the next query of a running capture
SnapshotQuery ==
  /\ tpc = "capture"
  /\ \E c \in Capturers :
       /\ captures[c].tool = "capture_state_snapshot"
       /\ captures[c].ret = "running"
       /\ \E o \in QueryOutcomes(captures[c].tool) :
            /\ captures' = [captures EXCEPT ![c] = AfterQuery(captures[c], o)]
            /\ snapshot_files' =
                 IF o = "ok"
                 THEN WriteSection(snapshot_files, captures[c].dir,
                                   Queries(captures[c].tool)[captures[c].issued + 1], c)
                 ELSE snapshot_files
  /\ UNCHANGED <<controllerVars, pre_snapshot, post_snapshot, differences,
                 post_consistency, baseline, current, changes, drift_analysis,
                 results, idempotence_analysis, cpu_count, memory_total,
                 hardware_profile, optimizations, tpc, clock, output, parsed, runs>>

\* _capture_quick_state lines 110-149: the state is kept in memory, nothing
\* is written under the directory
QuickStateQuery ==
  /\ tpc = "capture"
  /\ \E c \in Capturers :
       /\ captures[c].tool = "_capture_quick_state"
       /\ captures[c].ret = "running"
       /\ \E o \in QueryOutcomes(captures[c].tool) :
            captures' = [captures EXCEPT ![c] = AfterQuery(captures[c], o)]
  /\ UNCHANGED <<controllerVars, pre_snapshot, post_snapshot, differences,
                 post_consistency, baseline, current, changes, drift_analysis,
                 results, idempotence_analysis, cpu_count, memory_total,
                 hardware_profile, optimizations, tpc, clock, snapshot_files,
                 output, parsed, runs>>

NextCapture ==
  \/ Tick
  \/ CaptureStateSnapshot
  \/ CaptureQuickState
  \/ SnapshotQuery
  \/ QuickStateQuery

SpecCapture == InitCapture /\ [][NextCapture]_vars

\* ------------------------------------------- parsing the executor's output
\* stdout of `ansible all -m shell -a ...`: per host a header line
\* "<host> | <RESULT> | rc=<n> >>" followed by the lines the command printed

MaxLines == 3

OutputHosts == {"web1", "web2"}

HostResults == {"SUCCESS", "CHANGED", "FAILED", "UNREACHABLE"}

\* one line of output: a header (x the host, y the result), an md5sum line
\* "hash  file" (x the hash, y the file), a systemctl line "unit loaded
\* active sub description" (x the unit, y the sub state), any other text, or
\* a blank line
Line(kind, x, y) == [kind |-> kind, x |-> x, y |-> y]

Lines ==
  {Line("header", h, r) : h \in OutputHosts, r \in HostResults} \cup
  {Line("md5sum", "d41d8cd9", f) : f \in {"/etc/a.conf", "/etc/b.conf"}} \cup
  {Line("unit", "sshd.service", y) : y \in {"running", "exited"}} \cup
  {Line("text", "", ""), Line("blank", "", "")}

Outputs == UNION {[1..n -> Lines] : n \in 0..MaxLines}

\* ' | SUCCESS | ' in line
IsSuccessHeader(line) == line.kind = "header" /\ line.y = "SUCCESS"

\* len(line.strip().split('  ', 1)) == 2
IsHashLine(line) == line.kind = "md5sum"

\* '.service' in line and 'running' in line
IsRunningService(line) == line.kind = "unit" /\ line.y = "running"

NoCurrentHost == "None"

NothingParsed == [hosts |-> {}, entries |-> {}]

ParsedEntry(h, name, value) == [host |-> h, name |-> name, value |-> value]

\* the entry a content line adds for current_host:
\* {'hash': parts[0], 'file': parts[1]} or the unit name line.split()[0]
EntryOf(section, h, line) ==
  IF section = "configs" THEN ParsedEntry(h, line.y, line.x)
  ELSE ParsedEntry(h, line.x, "running")

IsContent(section, line) ==
  IF section = "configs" THEN IsHashLine(line) ELSE IsRunningService(line)

\* the loop of the four parsers. The parsers of state_reconciliation.py
\* (resets) start a host's list anew at each of its SUCCESS headers, those of
\* test_idempotence.py keep a defaultdict in which a host appears with its
\* first entry; in the dict of _parse_config_hashes a file has one hash, the
\* last one read. Lists are kept as sets of entries.
RECURSIVE ParseLoop(_, _, _, _, _)
ParseLoop(section, resets, lines, current_host, acc) ==
  IF lines = <<>> THEN acc
  ELSE
    LET line == Head(lines)
        rest == Tail(lines)
    IN IF line.kind = "blank"
       THEN ParseLoop(section, resets, rest, current_host, acc)
       ELSE IF IsSuccessHeader(line)
       THEN ParseLoop(section, resets, rest, line.x,
              IF resets
              THEN [hosts |-> acc.hosts \cup {line.x},
                    entries |-> {e \in acc.entries : e.host # line.x}]
              ELSE acc)
       ELSE IF current_host # NoCurrentHost /\ IsContent(section, line)
       THEN ParseLoop(section, resets, rest, current_host,
              [hosts |-> acc.hosts \cup {current_host},
               entries |->
                 {e \in acc.entries :
                    ~(section = "configs" /\ ~resets
                        /\ e.host = current_host /\ e.name = line.y)}
                 \cup {EntryOf(section, current_host, line)}])
       ELSE ParseLoop(section, resets, rest, current_host, acc)

\* state_reconciliation.py
SaveConfigHashes(hash_output) ==
  ParseLoop("configs", TRUE, hash_output, NoCurrentHost, NothingParsed)

SaveServiceStatus(service_output) ==
  ParseLoop("services", TRUE, service_output, NoCurrentHost, NothingParsed)

\* test_idempotence.py
ParseConfigHashes(out) ==
  ParseLoop("configs", FALSE, out, NoCurrentHost, NothingParsed)

ParseServiceStatus(out) ==
  ParseLoop("services", FALSE, out, NoCurrentHost, NothingParsed)

InitParse ==
  /\ ControllerIdle
  /\ ReconcileIdle /\ DriftIdle /\ IdempotenceIdle /\ HardwareIdle
  /\ clock = 0 /\ captures = NotRun /\ snapshot_files = NotRun
  /\ runs = NotRun
  /\ output \in Outputs
  /\ parsed = NotRun
  /\ tpc = "output"

Parsed(parser, section, res) ==
  /\ tpc = "output"
  /\ parsed' = [parser |-> parser, section |-> section,
                hosts |-> res.hosts, entries |-> res.entries]
  /\ tpc' = "parsed"
  /\ UNCHANGED <<controllerVars, pre_snapshot, post_snapshot, differences,
                 post_consistency, baseline, current, changes, drift_analysis,
                 results, idempotence_analysis, cpu_count, memory_total,
                 hardware_profile, optimizations, clock, captures,
                 snapshot_files, output, runs>>

\* capture_state_snapshot line 53
SaveConfigs ==
  /\ tpc = "output"
  /\ Parsed("_save_config_hashes", "configs", SaveConfigHashes(output))

\* capture_state_snapshot line 68
SaveServices ==
  /\ tpc = "output"
  /\ Parsed("_save_service_status", "services", SaveServiceStatus(output))

\* _capture_quick_state line 118
ParseConfigs ==
  /\ tpc = "output"
  /\ Parsed("_parse_config_hashes", "configs", ParseConfigHashes(output))

\* _capture_quick_state line 127
ParseServices ==
  /\ tpc = "output"
  /\ Parsed("_parse_service_status", "services", ParseServiceStatus(output))

NextParse == SaveConfigs \/ SaveServices \/ ParseConfigs \/ ParseServices

SpecParse == InitParse /\ [][NextParse]_vars

\* --------------------------------------- two controller runs, one state file
\* two invocations of deploy_helper.py at once: each has its own in-memory
\* DeploymentState and takes the steps of progressive_deployment or
\* resume_deployment; the locks, pre_commands and attempts of a stage are
\* one step here, since they touch neither the state nor the file

RunIds == {"A", "B"}

NotStarted == [op |-> "none", pc |-> "idle", state |-> EmptyState, stage |-> None,
               svFrom |-> "none", svRet |-> "none", recorded |-> {}, last |-> FALSE]

InitTwoRuns ==
  /\ ControllerAtRest
  /\ stateArg = DefaultFile
  /\ \E f \in InitFiles :
       fs = [p \in Paths |-> IF p = DefaultFile THEN f ELSE AbsentFile]
  /\ config = StageOption(Unset, Unset, "unset", TRUE, NumPre)
  /\ tier = "standard"
  /\ ReconcileIdle /\ DriftIdle /\ IdempotenceIdle /\ HardwareIdle
  /\ clock = 0 /\ captures = NotRun /\ snapshot_files = NotRun
  /\ output = NotRun /\ parsed = NotRun
  /\ runs = [r \in RunIds |-> NotStarted]
  /\ tpc = "runs"

\* what a step of one run leaves alone
RunFrame ==
  UNCHANGED <<stateArg, config, tier, op, pc, state, loaded, i, cur, preIdx,
              attempt, success, svFrom, svPath, svRet, result, trace, failedAt,
              resumed, calls, prev, durable, pre_snapshot, post_snapshot,
              differences, post_consistency, baseline, current, changes,
              drift_analysis, results, idempotence_analysis, cpu_count,
              memory_total, hardware_profile, optimizations, tpc, clock,
              captures, snapshot_files, output, parsed>>

\* the run whose Save renamed or wrote the file last
Touched(rs, r) == [q \in RunIds |-> [rs[q] EXCEPT !.last = (q = r)]]

\* progressive_deployment line 440
RunStartsRunAll ==
  /\ tpc = "runs"
  /\ \E r \in RunIds :
       /\ runs[r].pc = "idle"
       /\ runs' = [runs EXCEPT ![r].op = "RunAll",
                               ![r].state = LoadState(fs, stateArg),
                               ![r].pc = "ra_loop"]
  /\ UNCHANGED fs
  /\ RunFrame

\* resume_deployment lines 523-535
RunStartsResume ==
  /\ tpc = "runs"
  /\ \E r \in RunIds :
       /\ runs[r].pc = "idle"
       /\ runs' = [runs EXCEPT
                     ![r].op = "Resume",
                     ![r].state = LoadState(fs, stateArg),
                     ![r].stage = FirstFailed(LoadState(fs, stateArg).stages),
                     ![r].pc = IF FirstFailed(LoadState(fs, stateArg).stages) = None
                               THEN "done" ELSE "rs_mark"]
  /\ UNCHANGED fs
  /\ RunFrame

\* progressive_deployment lines 461-479 and 486-499: the first stage not
\* completed, or the summary
RunLoop ==
  /\ tpc = "runs"
  /\ \E r \in RunIds :
       /\ runs[r].pc = "ra_loop"
       /\ LET todo == {n \in StageIds : ~ShouldSkip(runs[r].state, n)}
          IN IF todo = {}
             THEN runs' = [runs EXCEPT ![r].pc = "done"]
             ELSE runs' = [runs EXCEPT
                             ![r].stage = CHOOSE n \in todo : \A m \in todo : n <= m,
                             ![r].pc = "ds_exec"]
  /\ UNCHANGED fs
  /\ RunFrame

\* resume_deployment lines 537-540
RunMarks ==
  /\ tpc = "runs"
  /\ \E r \in RunIds :
       /\ runs[r].pc = "rs_mark"
       /\ runs' = [runs EXCEPT
                     ![r].state = MarkInProgress(runs[r].state, runs[r].stage),
                     ![r].svFrom = "resume",
                     ![r].pc = "sv_rename"]
  /\ UNCHANGED fs
  /\ RunFrame

\* deploy_stage lines 375-411: the stage goes through or deploy_stage
\* returns False and the call ends
RunExecutes ==
  /\ tpc = "runs"
  /\ \E r \in RunIds, ok \in BOOLEAN :
       /\ runs[r].pc = "ds_exec"
       /\ runs' = [runs EXCEPT ![r].pc = IF ok THEN "ds_record" ELSE "done"]
  /\ UNCHANGED fs
  /\ RunFrame

\* deploy_stage lines 398-406
RunRecords ==
  /\ tpc = "runs"
  /\ \E r \in RunIds :
       /\ runs[r].pc = "ds_record"
       /\ IF ~runs[r].state.has
          THEN runs' = [runs EXCEPT ![r].pc = "done"]
          ELSE runs' = [runs EXCEPT
                          ![r].state = RecordCompleted(runs[r].state, runs[r].stage),
                          ![r].svFrom = "deploy_stage",
                          ![r].pc = "sv_rename"]
  /\ UNCHANGED fs
  /\ RunFrame

\* save_deployment_state lines 33-40
RunSaveRenames ==
  /\ tpc = "runs"
  /\ \E r \in RunIds :
       /\ runs[r].pc = "sv_rename"
       /\ LET path == SavePathUsed(stateArg)
              stamped == [runs EXCEPT ![r].state.last_updated = TRUE,
                                      ![r].svRet = "none"]
          IN IF Exists(fs, path)
             THEN \/ /\ fs' = Rename(fs, path, BackupOf(path))
                     /\ runs' = Touched([stamped EXCEPT ![r].pc = "sv_write"], r)
                  \/ /\ runs' = [stamped EXCEPT ![r].svRet = "False",
                                                ![r].pc = "sv_return"]
                     /\ UNCHANGED fs
             ELSE /\ runs' = [stamped EXCEPT ![r].pc = "sv_write"]
                  /\ UNCHANGED fs
  /\ RunFrame

\* save_deployment_state lines 42-47
RunSaveWrites ==
  /\ tpc = "runs"
  /\ \E r \in RunIds, w \in {"ok", "open_fails", "dump_fails"} :
       /\ runs[r].pc = "sv_write"
       /\ LET path == SavePathUsed(stateArg)
          IN CASE w = "ok" ->
                    /\ fs' = [fs EXCEPT ![path] = JsonFile(runs[r].state)]
                    /\ runs' = Touched([runs EXCEPT ![r].svRet = "True",
                                                    ![r].pc = "sv_return"], r)
               [] w = "open_fails" ->
                    /\ runs' = [runs EXCEPT ![r].svRet = "False",
                                            ![r].pc = "sv_return"]
                    /\ UNCHANGED fs
               [] OTHER ->
                    /\ fs' = [fs EXCEPT ![path] = TornFile]
                    /\ runs' = Touched([runs EXCEPT ![r].svRet = "False",
                                                    ![r].pc = "sv_return"], r)
  /\ RunFrame

\* back in the caller: deploy_stage line 407 and the end of the call
\* (progressive_deployment lines 481-484, resume_deployment lines 558-565),
\* or resume_deployment lines 542-558 on to the resumed stage
RunSaveReturns ==
  /\ tpc = "runs"
  /\ \E r \in RunIds :
       /\ runs[r].pc = "sv_return"
       /\ IF runs[r].svFrom = "deploy_stage"
          THEN runs' = [runs EXCEPT
                          ![r].recorded = IF runs[r].svRet = "True"
                                          THEN @ \cup {runs[r].stage} ELSE @,
                          ![r].pc = "done"]
          ELSE runs' = [runs EXCEPT
                          ![r].pc = IF runs[r].stage \in StageIds
                                    THEN "ds_exec" ELSE "done"]
  /\ UNCHANGED fs
  /\ RunFrame

NextTwoRuns ==
  \/ RunStartsRunAll
  \/ RunStartsResume
  \/ RunLoop
  \/ RunMarks
  \/ RunExecutes
  \/ RunRecords
  \/ RunSaveRenames
  \/ RunSaveWrites
  \/ RunSaveReturns

SpecTwoRuns == InitTwoRuns /\ [][NextTwoRuns]_vars

\* ================================================================== claims
IsExec(e) == e.kind = "exec"

ExecOf(tr, n) == {k \in DOMAIN tr : IsExec(tr[k]) /\ tr[k].stage = n}

\* every lock check, pre_command and executor attempt of the call went
\* through, and no stage needed a second attempt
FirstAttemptSuccess(tr) ==
  \A k \in DOMAIN tr : tr[k].outcome \in {"clear", "zero", "ok"} /\ (IsExec(tr[k]) => tr[k].idx = 0)

\* C1: a RunAll that runs some stage and whose executor succeeds on the first
\* attempt of every stage it runs ends with every configured stage completed
\* and returns success.
C1_AllSucceedCompletes ==
  (op = "RunAll" /\ pc = "done" /\ FirstAttemptSuccess(trace)
     /\ \E k \in DOMAIN trace : IsExec(trace[k]))
    => (result = "True" /\ \A n \in StageIds : StatusOf(state, n) = "completed")

\* C2: after a RunAll that stopped because stage S failed, the next call, a
\* Resume, selects S and runs it (up to the executor unless a pre-condition
\* of S fails again).
C2_ResumeRunsFailedStage ==
  (op = "Resume" /\ pc = "done" /\ prev.op = "RunAll" /\ prev.ended = "returned"
     /\ prev.failed # None)
    => (resumed = prev.failed /\ \E k \in DOMAIN trace : trace[k].stage = prev.failed)

AllConfiguredCompleted(st) == \A n \in StageIds : StatusOf(st, n) = "completed"

\* C3: a RunAll that loads a state in which every configured stage is
\* completed invokes the executor zero times and returns success, whatever
\* state file path was passed.
C3_RerunIsNoOp ==
  (op = "RunAll" /\ pc \notin {"idle", "crashed"} /\ AllConfiguredCompleted(loaded))
    => (trace = <<>> /\ (pc = "done" => result = "True"))

\* C4: once a call has returned, the stage whose execution ended in failure
\* has status failed in the DeploymentState.
C4_FailureIsRecorded ==
  (pc = "done" /\ failedAt # None) => StatusOf(state, failedAt) = "failed"

AllowedStatusStep(a, b, o) ==
  \/ a = b
  \/ a = "not_started" /\ b = "in_progress"
  \/ a = "in_progress" /\ b \in {"completed", "failed"}
  \/ a = "failed" /\ b = "in_progress" /\ o = "Resume"

\* C5: within a call every change of a stage's status follows
\* not_started -> in_progress -> completed | failed, or failed -> in_progress
\* under Resume; no stage becomes completed from any status but in_progress.
C5_StatusMachine ==
  [][(pc \notin {"idle", "done", "crashed"} /\ pc' # "crashed")
       => \A n \in StageIds :
            AllowedStatusStep(StatusOf(state, n), StatusOf(state', n), op)]_vars

\* C6: the lock checks, pre_commands and executor invocations of a RunAll
\* come in declared stage order, a later stage is touched only after the
\* earlier one's executor succeeded, and nothing is done for a stage after
\* the one that failed.
C6_OrderedStopOnFailure ==
  op = "RunAll" =>
    /\ \A k, l \in DOMAIN trace : k < l => trace[k].stage <= trace[l].stage
    /\ \A k, l \in DOMAIN trace :
         (k < l /\ trace[k].stage < trace[l].stage)
           => \E m \in 1..(l - 1) :
                trace[m].stage = trace[k].stage /\ IsExec(trace[m]) /\ trace[m].outcome = "ok"
    /\ failedAt # None => \A k \in DOMAIN trace : trace[k].stage <= failedAt

\* a RunAll returned after its first configured stage failed in the
\* executor, and the later stage, not completed, was left alone
C6_Witness ==
  /\ op = "RunAll" /\ pc = "done" /\ failedAt = 1
  /\ \E k \in DOMAIN trace : IsExec(trace[k]) /\ trace[k].stage = 1 /\ trace[k].outcome = "error"
  /\ StatusOf(state, NumStages) # "completed"
  /\ \A k \in DOMAIN trace : trace[k].stage = 1

OneFailedRestCompleted(st) ==
  \E s \in StageIds :
    StatusOf(st, s) = "failed" /\ \A n \in StageIds \ {s} : StatusOf(st, n) = "completed"

\* C7: a Resume that loads a state with exactly one failed stage and every
\* other stage completed invokes the executor with that stage's playbook only.
C7_ResumeOnlyFailedStage ==
  (op = "Resume" /\ OneFailedRestCompleted(loaded))
    => \A k \in DOMAIN trace : IsExec(trace[k]) => StatusOf(loaded, trace[k].stage) = "failed"

\* such a Resume has returned after invoking the executor
C7_Witness ==
  /\ op = "Resume" /\ pc = "done" /\ OneFailedRestCompleted(loaded)
  /\ \E k \in DOMAIN trace : IsExec(trace[k]) /\ StatusOf(loaded, trace[k].stage) = "failed"

\* C8: when the executor succeeded for the resumed stage, every other
\* stage's StageOutcome, in memory and in the state file, is what Resume
\* loaded.
C8_ResumeFrame ==
  (op = "Resume" /\ pc = "done" /\ resumed # None
     /\ \E k \in ExecOf(trace, resumed) : trace[k].outcome = "ok")
    => \A n \in StageIds \ {resumed} :
         /\ OutcomeOf(state, n) = OutcomeOf(loaded, n)
         /\ OutcomeOf(LoadState(fs, stateArg), n) = OutcomeOf(loaded, n)

\* the base timeout the stage of an event runs with in this call
BaseTimeoutOf(n) ==
  IF op = "RunAll" THEN OptimizedStage(n, config, tier).timeout ELSE RawStage(n, config).timeout

\* C9: attempt k of a stage gets base x 2^k as its timeout budget (100, 200,
\* 400 for base 100), so budgets strictly increase across attempts.
C9_BackoffBudget ==
  \A k \in DOMAIN trace :
    IsExec(trace[k]) =>
      /\ trace[k].timeout = BaseTimeoutOf(trace[k].stage) * (2 ^ trace[k].idx)
      /\ (BaseTimeoutOf(trace[k].stage) = 100 /\ trace[k].idx = 0) => trace[k].timeout = 100
      /\ (BaseTimeoutOf(trace[k].stage) = 100 /\ trace[k].idx = 1) => trace[k].timeout = 200
      /\ (BaseTimeoutOf(trace[k].stage) = 100 /\ trace[k].idx = 2) => trace[k].timeout = 400
      /\ \A l \in DOMAIN trace :
           (k < l /\ IsExec(trace[l]) /\ trace[l].stage = trace[k].stage)
             => trace[k].timeout < trace[l].timeout

\* a stage with base timeout 100 reached its third attempt
C9_Witness ==
  \E k \in DOMAIN trace :
    /\ IsExec(trace[k]) /\ trace[k].idx = 2 /\ trace[k].timeout = 400
    /\ BaseTimeoutOf(trace[k].stage) = 100

\* C10: the RunAll that follows a crash right after a stage was recorded
\* completed and saved reloads that stage as completed and does not run it.
C10_CompletedSurvivesCrash ==
  (op = "RunAll" /\ pc \notin {"idle", "crashed"} /\ durable # None)
    => (StatusOf(loaded, durable) = "completed"
        /\ \A k \in DOMAIN trace : trace[k].stage # durable)

\* a step of save_deployment_state that leaves its rename behind (lines 38-40)
SaveRenameStep == pc = "sv_rename" /\ pc' \in {"sv_write", "sv_return"}

\* a step of save_deployment_state after its rename (lines 42-47)
SaveLaterStep == pc \in {"sv_write", "sv_return"} /\ pc' # "crashed"

TierIs(t) ==
  LET high == cpu_count # None /\ cpu_count >= 16 /\ memory_total >= 32000
      std == cpu_count # None /\ cpu_count >= 8 /\ memory_total >= 16000
      min == cpu_count # None /\ cpu_count >= 4 /\ memory_total >= 8000
  IN /\ t = "high_performance" <=> high
     /\ t = "standard" <=> (~high /\ std)
     /\ t = "minimal" <=> (~high /\ ~std /\ min)
     /\ t = "resource_constrained" <=> (~high /\ ~std /\ ~min)
     /\ cpu_count = None => t = "resource_constrained"

\* C20 as stated: the tier is a pure function of cpu_count and memory_gb:
\* high_performance iff cpu_count >= 16 and memory_gb >= 32, otherwise standard
\* iff >= 8 and >= 16, otherwise minimal iff >= 4 and >= 8, otherwise
\* resource_constrained, also when cpu_count is unavailable.
C20_TierByThresholds == tpc = "detected" => TierIs(hardware_profile.type)

\* C20 amended: when every metric is read the tier is that function of the
\* cpu_count and memory_gb read; when a read raises the tier is unknown and
\* the profile carries the default 4 GiB.
C20_TierByThresholdsWhenRead ==
  tpc = "detected" =>
    \/ hardware_profile.type # "unknown" /\ TierIs(hardware_profile.type)
    \/ hardware_profile.type = "unknown" /\ hardware_profile.memory_gb = 4000

\* a machine with 16 cores or more and less than 32 GiB is classified standard
C20_Witness ==
  /\ tpc = "detected" /\ hardware_profile.type = "standard"
  /\ cpu_count >= 16 /\ memory_total < 32000

\* the change type of the opposite direction
Flip(t) ==
  CASE t = "added" -> "removed"
    [] t = "removed" -> "added"
    [] t = "started" -> "stopped"
    [] t = "stopped" -> "started"
    [] OTHER -> t

\* every entry of x has its mirror image in y
MirrorsFacts(x, y) ==
  \A c \in x : \E e \in y :
    e.host = c.host /\ e.field = c.field /\ e.before = c.after /\ e.after = c.before

MirrorsConfigs(x, y) ==
  \A c \in x : \E e \in y :
    e.host = c.host /\ e.file = c.file /\ e.type = Flip(c.type)

MirrorsServices(x, y) ==
  \A c \in x : \E e \in y :
    e.host = c.host /\ e.service = c.service /\ e.type = Flip(c.type)

MirrorsChanges(x, y) ==
  \A c \in x : \E e \in y :
    e.host = c.host /\ e.type = c.type /\ e.item = c.item
      /\ e.change_type = Flip(c.change_type)

\* C14: for all snapshots A and B, every added change of Diff(A,B) is a removed
\* change of Diff(B,A) for the same host and item and vice versa, every started
\* service is a stopped one and vice versa, every modified item is modified in
\* both directions, and both diffs have the same totalChanges; for
\* compare_snapshots and for _analyze_state_changes.
C14_DiffMirror ==
  /\ tpc \in {"compared", "reported"} =>
       LET back == CompareSnapshots(post_snapshot, pre_snapshot)
       IN /\ MirrorsFacts(differences.facts, back.facts)
          /\ MirrorsFacts(back.facts, differences.facts)
          /\ MirrorsConfigs(differences.configs, back.configs)
          /\ MirrorsConfigs(back.configs, differences.configs)
          /\ MirrorsServices(differences.services, back.services)
          /\ MirrorsServices(back.services, differences.services)
          /\ differences.total_changes = back.total_changes
  /\ tpc = "analyzed" =>
       LET back == AnalyzeStateChanges(current, baseline)
       IN /\ MirrorsChanges(changes, back)
          /\ MirrorsChanges(back, changes)
          /\ Cardinality(changes) = Cardinality(back)

\* a comparison that found a fact changed, a file added, a file modified and
\* a service stopped
C14_Witness ==
  /\ tpc = "compared"
  /\ \E c \in differences.facts : ~c.error
  /\ \E c \in differences.configs : c.type = "added"
  /\ \E c \in differences.configs : c.type = "modified"
  /\ \E c \in differences.services : c.type = "stopped"

\* the files of a snapshot that json.loads rejects
TornFiles(snap) ==
  {<<h, cat>> \in Hosts \X {"facts", "configs", "services"} :
     snap.hosts[h][cat].kind = "torn"}

\* C15 as stated: for every snapshot A, Diff(A,A) reports no fact, config or
\* service change and totalChanges == 0.
C15_SelfDiffEmpty ==
  (tpc \in {"compared", "reported"} /\ pre_snapshot = post_snapshot) =>
    /\ differences.facts = {}
    /\ differences.configs = {}
    /\ differences.services = {}
    /\ differences.total_changes = 0

\* C15 amended: for every snapshot A whose files all parse, Diff(A,A) reports
\* no fact, config or service change and totalChanges == 0; a file of A that
\* does not parse puts one error entry for its host into the changes of its
\* category, and totalChanges counts these entries and nothing else.
C15_SelfDiffOnlyErrors ==
  (tpc \in {"compared", "reported"} /\ pre_snapshot = post_snapshot) =>
    /\ \A c \in differences.facts : c.error /\ <<c.host, "facts">> \in TornFiles(pre_snapshot)
    /\ \A c \in differences.configs : c.error /\ <<c.host, "configs">> \in TornFiles(pre_snapshot)
    /\ \A c \in differences.services : c.error /\ <<c.host, "services">> \in TornFiles(pre_snapshot)
    /\ differences.total_changes = Cardinality(TornFiles(pre_snapshot))
    /\ TornFiles(pre_snapshot) = {} =>
         /\ differences.facts = {} /\ differences.configs = {}
         /\ differences.services = {} /\ differences.total_changes = 0

\* a snapshot with facts, config files and running services on every host,
\* all of them parsed, was compared with itself
C15_Witness ==
  /\ tpc = "compared" /\ pre_snapshot = post_snapshot
  /\ TornFiles(pre_snapshot) = {}
  /\ \A h \in Hosts :
       /\ pre_snapshot.hosts[h].facts.kind = "json"
       /\ pre_snapshot.hosts[h].configs.data # <<>>
       /\ pre_snapshot.hosts[h].services.data # <<>>

\* the check has run on post_snapshot
Checked == tpc \in {"checked", "reported"}

\* hosts that have facts in the snapshot
HostsWithFacts(snap) == {h \in Hosts : snap.dirs /\ snap.hosts[h].facts.kind = "json"}

\* C16: if fewer than two hosts have facts in the snapshot, the report has
\* consistent = false and an explicit issue saying so.
C16_TooFewHostsInconsistent ==
  (Checked /\ Cardinality(HostsWithFacts(post_snapshot)) < 2) =>
    /\ post_consistency.consistent = FALSE
    /\ \E x \in post_consistency.issues :
         x.type \in {"No facts directory found",
                      "Need at least 2 hosts for consistency check"}

\* hosts whose running services the snapshot holds, and what they run
HostsWithServices(snap) == {h \in Hosts : snap.dirs /\ snap.hosts[h].services.kind = "json"}

Runs(snap, h, s) == \E k \in DOMAIN snap.hosts[h].services.data : snap.hosts[h].services.data[k] = s

\* C17: for a snapshot with at least two hosts, a host that lacks a service
\* which every other host runs gets a missing-service issue listing that
\* service, and the report is marked inconsistent.
C17_MissingServiceReported ==
  (/\ Checked
   /\ Cardinality(HostsWithFacts(post_snapshot)) >= 2
   /\ Cardinality(HostsWithServices(post_snapshot)) >= 2) =>
    \A h \in HostsWithServices(post_snapshot) :
      \A s \in {"nginx.service", "sshd.service", "cron.service"} :
        (/\ ~Runs(post_snapshot, h, s)
         /\ \A o \in HostsWithServices(post_snapshot) \ {h} : Runs(post_snapshot, o, s))
          => /\ post_consistency.consistent = FALSE
             /\ \E x \in post_consistency.issues :
                  x.type = "missing_services" /\ x.host = h /\ s \in x.missing_services

\* the hosts with facts that show value v for field f
HostsShowing(snap, f, v) ==
  {h \in HostsWithFacts(snap) : v # Missing /\ snap.hosts[h].facts.data[f] = v}

\* the distinct values the hosts carrying field f show
Observed(snap, f) ==
  {snap.hosts[h].facts.data[f] : h \in HostsWithFacts(snap)} \ {Missing}

\* C18: for a snapshot with at least two hosts, Check reports an issue for an
\* allow-listed field exactly when the hosts carrying it show more than one
\* distinct value, the issue's grouping maps each observed value to exactly
\* the hosts that have it, and when all hosts agree on every allow-listed
\* field and there is no service issue the report is consistent = true.
C18_FieldIssues ==
  (Checked /\ Cardinality(HostsWithFacts(post_snapshot)) >= 2) =>
    /\ \A f \in {"ansible_distribution", "ansible_distribution_version",
                  "ansible_kernel", "ansible_python_version"} :
         /\ (\E x \in post_consistency.issues : x.type = "field" /\ x.field = f)
              <=> Cardinality(Observed(post_snapshot, f)) > 1
         /\ \A x \in post_consistency.issues :
              (x.type = "field" /\ x.field = f) =>
                /\ {g.value : g \in x.inconsistent_values} = Observed(post_snapshot, f)
                /\ \A g \in x.inconsistent_values :
                     g.hosts = HostsShowing(post_snapshot, f, g.value)
    /\ \A x \in post_consistency.issues :
         x.type = "field" => x.field \in ConsistencyKeyFields
    /\ ((\A x \in post_consistency.issues : x.type # "missing_services")
          /\ \A f \in ConsistencyKeyFields : Cardinality(Observed(post_snapshot, f)) <= 1)
         => post_consistency.consistent = TRUE

\* two hosts of different distributions were checked: the issue groups them
\* as Ubuntu -> [1], CentOS -> [2]
C18_Witness ==
  /\ Checked
  /\ \E x \in post_consistency.issues :
       /\ x.type = "field" /\ x.field = "ansible_distribution"
       /\ [value |-> "Ubuntu", hosts |-> {1}] \in x.inconsistent_values
       /\ [value |-> "CentOS", hosts |-> {2}] \in x.inconsistent_values

\* the severity the drift items of one kind carry
DriftSeverity(t, dt, sev) ==
  \A d \in drift_analysis : (d.type = t /\ d.drift_type = dt) => d.severity = sev

\* service s runs on host h in a quick state
RunsIn(st, h, s) == \E k \in DOMAIN st.services[h].data : st.services[h].data[k] = s

\* C19: every drift item carries a severity fixed by its kind: a service
\* present in the baseline and absent now (stopped) and a modified config file
\* are HIGH; a newly running service, an added config file and a removed
\* config file are MEDIUM.
C19_DriftSeverity ==
  tpc = "drift" =>
    /\ DriftSeverity("service_drift", "stopped", "HIGH")
    /\ DriftSeverity("config_drift", "modified", "HIGH")
    /\ DriftSeverity("service_drift", "started", "MEDIUM")
    /\ DriftSeverity("config_drift", "added", "MEDIUM")
    /\ DriftSeverity("config_drift", "removed", "MEDIUM")
    /\ \A d \in drift_analysis :
         /\ d.severity \in {"HIGH", "MEDIUM"}
         /\ d.type = "service_drift" =>
              /\ d.drift_type = "stopped" <=>
                   (RunsIn(baseline, d.host, d.item) /\ ~RunsIn(current, d.host, d.item))
              /\ d.drift_type = "started" <=>
                   (~RunsIn(baseline, d.host, d.item) /\ RunsIn(current, d.host, d.item))
         /\ d.type = "config_drift" =>
              /\ d.drift_type = "modified" <=>
                   (d.baseline_hash # Missing /\ d.current_hash # Missing)
              /\ d.drift_type = "added" <=> d.baseline_hash = Missing
              /\ d.drift_type = "removed" <=>
                   (d.baseline_hash # Missing /\ d.current_hash = Missing)
    /\ \A h \in Hosts : \A s \in {"nginx.service", "sshd.service", "cron.service"} :
         (RunsIn(baseline, h, s) /\ ~RunsIn(current, h, s)) =>
           \E d \in drift_analysis :
             d.host = h /\ d.item = s /\ d.type = "service_drift" /\ d.severity = "HIGH"

\* a drift with a stopped service, a modified, an added and a removed file
\* and a started service
C19_Witness ==
  /\ tpc = "drift"
  /\ \E d \in drift_analysis : d.drift_type = "stopped" /\ d.severity = "HIGH"
  /\ \E d \in drift_analysis : d.drift_type = "modified" /\ d.severity = "HIGH"
  /\ \E d \in drift_analysis : d.drift_type = "started" /\ d.severity = "MEDIUM"
  /\ \E d \in drift_analysis : d.drift_type = "added" /\ d.severity = "MEDIUM"
  /\ \E d \in drift_analysis : d.drift_type = "removed" /\ d.severity = "MEDIUM"

\* the change-key set of an iteration: host, type and file or service of each
\* of its changes
ChangeKeySet(r) == {<<c.host, c.type, c.item>> : c \in r.changes}

\* the changed tasks of an iteration, as a set of host and task
ChangedTaskSet(r) ==
  {<<r.changed_tasks[k].host, r.changed_tasks[k].task>> : k \in DOMAIN r.changed_tasks}

AllExitCodesZero == \A k \in DOMAIN results : results[k].returncode = 0

ChangeKeySetsEqual ==
  \A k \in DOMAIN results : k > 1 => ChangeKeySet(results[k]) = ChangeKeySet(results[1])

ChangedTaskSetsEqual ==
  \A k \in DOMAIN results : k > 1 => ChangedTaskSet(results[k]) = ChangedTaskSet(results[1])

C13_DifferingChangesNamed ==
  tpc = "analysis" =>
    \A k \in DOMAIN results :
      (k > 1 /\ ChangeKeySet(results[k]) # ChangeKeySet(results[1])) =>
        /\ idempotence_analysis.idempotent = FALSE
        /\ \E x \in idempotence_analysis.issues :
             x.type = "inconsistent_changes" /\ x.iteration = k

\* iteration 1 changed /etc/a.conf on host 1, iteration 2 changed nothing,
\* both exit 0 with the same tasks: one issue, naming iteration 2
C13_Witness ==
  /\ tpc = "analysis"
  /\ Len(results) = 2
  /\ AllExitCodesZero
  /\ ChangedTaskSetsEqual
  /\ ChangeKeySet(results[1]) = {<<1, "config", "/etc/a.conf">>}
  /\ ChangeKeySet(results[2]) = {}
  /\ ~idempotence_analysis.idempotent
  /\ \A x \in idempotence_analysis.issues :
       x.type = "inconsistent_changes" /\ x.iteration = 2
  /\ idempotence_analysis.issues # {}

\* C21: when a metric read fails the profile is the default one with tier
\* unknown, and the optimizations derived from it equal those derived for
\* resource_constrained: forks, timeout multiplier, retry count, async flag
\* and parallel stages
C21_UnknownAsResourceConstrained ==
  (tpc = "optimized" /\ hardware_profile.type = "unknown") =>
    /\ hardware_profile.memory_gb = 4000
    /\ optimizations = [ansible_forks |-> 2, timeout_multiplier |-> 20, retry_count |-> 5,
                        async_enabled |-> FALSE, parallel_stages |-> 1]

\* the step in which an invocation of the executor ends with outcome o and
\* run_ansible_with_retry deals with it
ExecutorEnded(o) ==
  /\ pc = "rr_wait"
  /\ pc' \in {"rr_loop", "ds_record", "ds_return"}
  /\ trace'[Len(trace')].outcome = o

\* the loop goes on to its next attempt
NextAttempt == pc' = "rr_loop" /\ attempt' = attempt + 1 /\ success' = success

\* C22: in synchronous and in asynchronous mode a non-zero exit whose stderr
\* carries a timeout indication does not end the run: the loop goes on to the
\* next attempt
C22_TimeoutStderrRetried == [][ExecutorEnded("timeout_stderr") => NextAttempt]_vars

\* C23: in synchronous and in asynchronous mode a wait on the executor that
\* exceeds the attempt's budget is a timeout-class failure: the loop goes
\* on to the next attempt instead of failing the stage or waiting on
C23_GatewayTimeoutRetried ==
  [][(ExecutorEnded("gateway_timeout") \/ (pc = "rr_wait" /\ pc' = "hung")) => NextAttempt]_vars

\* C24: a non-zero exit with no timeout indication makes run_ansible_with_retry
\* return failure at once: it is the last thing done for the stage, also when
\* attempts remain
C24_ErrorFailsAtOnce ==
  \A k \in DOMAIN trace :
    (IsExec(trace[k]) /\ trace[k].outcome = "error") =>
      /\ k = Len(trace)
      /\ pc \in {"ds_return", "done"}
      /\ success = "False"
      /\ failedAt = trace[k].stage

\* the first of several attempts exited non-zero with no timeout indication
\* and the stage has failed
C24_Witness ==
  /\ pc = "ds_return" /\ success = "False"
  /\ cur.retries >= 2
  /\ Len(trace) > 0
  /\ IsExec(trace[Len(trace)])
  /\ trace[Len(trace)].outcome = "error"
  /\ trace[Len(trace)].idx = 0
  /\ Cardinality(ExecOf(trace, cur.name)) = 1

\* run_ansible_with_retry has returned to deploy_stage
Returned == pc \in {"ds_record", "ds_return"}

TimeoutClass(e) == e.outcome \in {"timeout_stderr", "gateway_timeout"}

\* the executor is invoked at most retries times; an exit code 0 is the last
\* invocation and returns success; retries timeout-class attempts, none for
\* retries = 0, return failure
RetryBounded ==
  cur.name # None =>
    /\ Cardinality(ExecOf(trace, cur.name)) <= cur.retries
    /\ \A k \in ExecOf(trace, cur.name) :
         trace[k].outcome = "ok" => (k = Len(trace) /\ pc = "ds_record")
    /\ pc = "ds_record" => (Len(trace) > 0 /\ trace[Len(trace)].outcome = "ok")
    /\ (/\ pc = "ds_return"
        /\ Cardinality(ExecOf(trace, cur.name)) = cur.retries
        /\ \A k \in ExecOf(trace, cur.name) : TimeoutClass(trace[k]))
         => success = "False"
    /\ (pc = "ds_return" /\ cur.retries = 0) =>
         (success = "False" /\ ExecOf(trace, cur.name) = {})

\* C25: run_ansible_with_retry invokes the executor at most max_retries times
\* and, when every invocation ends, always returns: success at the first exit
\* code 0 with no further invocation, failure after max_retries timeout-class
\* attempts, failure without any invocation when max_retries is 0
C25_BoundedAndReturns == []RetryBounded /\ <>Returned

\* both attempts of a stage with retries 2 timed out and the stage has failed
C25_Witness ==
  /\ pc = "ds_return" /\ success = "False"
  /\ cur.retries = 2
  /\ Cardinality(ExecOf(trace, cur.name)) = 2
  /\ \A k \in ExecOf(trace, cur.name) : TimeoutClass(trace[k])

\* a lock check that found a lock, a pre_command that exited non-zero
PreconditionFailed(e) ==
  \/ e.kind = "lock" /\ e.outcome \in {"locked", "cleared_later"}
  \/ e.kind = "pre" /\ e.outcome = "nonzero"

\* C26: when the lock check of a stage fails or one of its pre_commands exits
\* non-zero, the executor is not invoked for that stage and no pre_command
\* after the failing one is run
C26_NoExecutorAfterPrecondition ==
  \A k \in DOMAIN trace :
    PreconditionFailed(trace[k]) =>
      /\ ExecOf(trace, trace[k].stage) = {}
      /\ \A l \in DOMAIN trace : l > k => trace[l].stage # trace[k].stage
      /\ failedAt = trace[k].stage

\* the first of two pre_commands exited non-zero: the stage has failed with
\* the second one not run
C26_Witness ==
  /\ pc = "ds_return" /\ success = "False"
  /\ cur.pre_commands = 2
  /\ Len(trace) > 0
  /\ trace[Len(trace)].kind = "pre"
  /\ trace[Len(trace)].idx = 1
  /\ trace[Len(trace)].outcome = "nonzero"

\* C27: with check_locks set the lock files are polled up to the attempt
\* count, and the stage goes on if and only if some poll finds no lock file:
\* a lock seen at the first poll that is gone at a later one does not fail
\* the stage
C27_LockPolledUntilClear ==
  [][(pc = "ds_locks" /\ cur.check_locks /\ pc' \in {"ds_pre", "ds_return"})
       => (pc' = "ds_pre" <=> trace'[Len(trace')].outcome \in {"clear", "cleared_later"})]_vars

\* C28: a stage that sets timeout, retries or async runs under RunAll with
\* exactly those values on a machine of any tier; the values derived from
\* the tier are used for the fields the stage leaves unset
C28_ExplicitFieldsWin ==
  (op = "RunAll" /\ cur.name # None) =>
    /\ config.timeout # Unset => cur.timeout = config.timeout
    /\ config.retries # Unset => cur.retries = config.retries
    /\ config.async # "unset" => cur.async = (config.async = "true")
    /\ config.timeout = Unset => cur.timeout = (DefaultTimeout * TimeoutMultiplier10(tier)) \div 10
    /\ config.retries = Unset => cur.retries = RetryCount(tier)
    /\ config.async = "unset" => cur.async = AsyncEnabled(tier)

\* C29: Save is atomic with respect to Load: from its first step on, also
\* between the rename to the backup and the write, a Load of the state file
\* returns the state saved before or the new state, never the empty state
C29_SaveAtomic ==
  [][(SaveRenameStep /\ LoadState(fs, svPath) # EmptyState)
       => LoadState(fs', svPath) \in {LoadState(fs, svPath), state'}]_vars

\* C30: when the Save of a stage fails during a RunAll, the run goes on from
\* the state in memory: the stage counts as completed, the stages after it
\* are run, and the run returns success if every stage is completed in memory
C30_SaveFailureTrustsMemory ==
  (op = "RunAll" /\ pc = "done" /\ svFrom = "deploy_stage" /\ svRet = "False") =>
    /\ StatusOf(state, cur.name) = "completed"
    /\ \A n \in StageIds :
         (n > cur.name /\ StatusOf(loaded, n) # "completed")
           => \E k \in DOMAIN trace : trace[k].stage = n
    /\ AllConfiguredCompleted(state) => result = "True"

\* the differ of state_reconciliation.py reports change type t for file f
\* of host h, for service x of host h
ConfigReported(h, f, t) ==
  \E c \in differences.configs : ~c.error /\ c.host = h /\ c.file = f /\ c.type = t

ServiceReported(h, x, t) ==
  \E c \in differences.services : ~c.error /\ c.host = h /\ c.service = x /\ c.type = t

\* host h has a readable file of category cat in snapshot `present` and none
\* in snapshot `other`
OnlyIn(present, other, h, cat) ==
  /\ present.dirs /\ other.dirs
  /\ Parses(present.hosts[h][cat])
  /\ other.hosts[h][cat].kind = "absent"

\* C31: the diff ranges over the union of the hosts of both snapshots: the
\* config files and services of a host found only in the after snapshot are
\* reported added / started, those of a host found only in the before
\* snapshot removed / stopped
C31_DiffOverHostUnion ==
  tpc \in {"compared", "reported"} =>
    \A h \in Hosts :
      /\ OnlyIn(post_snapshot, pre_snapshot, h, "configs") =>
           \A f \in FilesOf(post_snapshot.hosts[h].configs.data) : ConfigReported(h, f, "added")
      /\ OnlyIn(pre_snapshot, post_snapshot, h, "configs") =>
           \A f \in FilesOf(pre_snapshot.hosts[h].configs.data) : ConfigReported(h, f, "removed")
      /\ OnlyIn(post_snapshot, pre_snapshot, h, "services") =>
           \A x \in ServiceSet(post_snapshot.hosts[h].services.data) :
             ServiceReported(h, x, "started")
      /\ OnlyIn(pre_snapshot, post_snapshot, h, "services") =>
           \A x \in ServiceSet(pre_snapshot.hosts[h].services.data) :
             ServiceReported(h, x, "stopped")

\* drift item d is change c relabelled
Relabels(d, c) ==
  /\ d.host = c.host
  /\ d.item = c.item
  /\ d.drift_type = c.change_type
  /\ (d.type = "config_drift") = (c.type = "config")
  /\ (d.type = "service_drift") = (c.type = "service")

\* C32: for every baseline and current state the drift items correspond one
\* to one to the changes the differ reports for the same pair: same host,
\* same file or service, same change type, nothing added, nothing dropped
C32_DriftMatchesDiffer ==
  tpc = "both" =>
    /\ \A c \in changes : Cardinality({d \in drift_analysis : Relabels(d, c)}) = 1
    /\ \A d \in drift_analysis : Cardinality({c \in changes : Relabels(d, c)}) = 1
    /\ Cardinality(drift_analysis) = Cardinality(changes)

\* the differ and the drift detector have run on a pair of states with a
\* removed file and a stopped service among several changes
C32_Witness ==
  /\ tpc = "both"
  /\ Cardinality(changes) >= 3
  /\ \E c \in changes : c.change_type = "removed"
  /\ \E c \in changes : c.change_type = "stopped"
  /\ \E c \in changes : c.change_type = "modified"

\* the executor invocations whose subprocess has not ended
InFlight(tr) ==
  {k \in DOMAIN tr : IsExec(tr[k]) /\ tr[k].outcome \in {"running", "abandoned"}}

\* C33: within one call at most one executor invocation is in flight, in
\* synchronous and in asynchronous mode: while a subprocess runs the
\* controller waits for it, and the outcome logic, the next attempt and the
\* next stage come only after it has ended
C33_OneExecutorInFlight ==
  /\ Cardinality(InFlight(trace)) <= 1
  /\ \A k \in InFlight(trace) : k = Len(trace) /\ pc \in {"rr_wait", "hung"}
  /\ pc = "rr_wait" => InFlight(trace) = {Len(trace)}

\* C34: in asynchronous mode an attempt ends also when the subprocess never
\* ends on its own (it is killed after its timeout plus grace, or the wait's
\* deadline of timeout + 60 s passes), so run_ansible_with_retry goes on to
\* its next attempt or returns
C34_AsyncAttemptEnds ==
  (pc = "rr_wait" /\ cur.async) ~> (pc \in {"rr_loop", "ds_record", "ds_return"})

\* C37: within one RunAll or Resume call every Save (the stage outcome
\* written after a stage completes, the in_progress mark of Resume) and the
\* final summary read address the state file path the caller passed
C37_CallerPathEverywhere ==
  /\ pc \in {"sv_rename", "sv_write", "sv_return"} => svPath = stateArg
  /\ pc = "ra_final" => FinalLoadPath(stateArg) = stateArg

\* the resumed stage's execution succeeded and the stage is recorded completed
ResumedCompleted ==
  /\ resumed # None
  /\ \E k \in ExecOf(trace, resumed) : trace[k].outcome = "ok"
  /\ StatusOf(state, resumed) = "completed"

\* C38: Resume returns success if and only if the resumed stage's execution
\* succeeded and the stage is recorded completed; when no stage has status
\* failed it returns failure and the state file is as it was loaded
C38_ResumeVerdict ==
  (op = "Resume" /\ pc = "done") =>
    /\ result = "True" <=> ResumedCompleted
    /\ FirstFailed(loaded.stages) = None
         => (result = "False" /\ trace = <<>> /\ LoadState(fs, stateArg) = loaded)

Called(c) == captures[c].ret # "not_called"

\* C35: two Capture calls never use the same snapshot directory, also with
\* the same snapshot name, concurrently or within the same second; the files
\* a capture wrote are never overwritten by a later capture
C35_SnapshotDirsDistinct ==
  \A c, d \in Capturers :
    /\ (c # d /\ Called(c) /\ Called(d)) => captures[c].dir # captures[d].dir
    /\ (captures[c].tool = "capture_state_snapshot")
         => \A q \in captures[c].sections :
              [dir |-> captures[c].dir, section |-> q, by |-> c] \in snapshot_files

\* C36: in Capture the failure of one query (non-zero exit, timeout or other
\* error) never aborts the capture and never ends it early: no capture ends
\* with an exception, and a capture that returned its snapshot has issued
\* every one of its queries
C36_QueryFailureIsLocal ==
  \A c \in Capturers :
    /\ captures[c].ret # "raised"
    /\ captures[c].ret = "snapshot" => captures[c].issued = Len(Queries(captures[c].tool))

\* the header lines of the output before line k
HeadersBefore(out, k) == {j \in 1..(k - 1) : out[j].kind = "header"}

\* line k is a content line under the header of host h: the header that
\* most recently precedes it is h's
UnderHeaderOf(out, k, h) ==
  /\ HeadersBefore(out, k) # {}
  /\ \E j \in HeadersBefore(out, k) :
       /\ \A m \in HeadersBefore(out, k) : m <= j
       /\ out[j].x = h

\* C40: every entry a per-host parser attributes to a host comes from a
\* content line whose most recent header is that host's: lines after the
\* header of a host whose result is not SUCCESS are never added to another
\* host, and lines before any header are dropped
C40_LinesBelongToLastHeader ==
  tpc = "parsed" =>
    \A e \in parsed.entries :
      \E k \in DOMAIN output :
        /\ IsContent(parsed.section, output[k])
        /\ EntryOf(parsed.section, e.host, output[k]) = e
        /\ UnderHeaderOf(output, k, e.host)

BothRunsDone == \A r \in RunIds : runs[r].pc = "done"

InStateFile(n) == StatusOf(LoadState(fs, SavePathUsed(stateArg)), n) = "completed"

\* C39 as stated: with two controller runs interleaving on one state file,
\* every stage that either run recorded as completed through a Save that
\* returned success is completed in the state file after both runs finish
C39_NoUpdateLost ==
  BothRunsDone => \A r \in RunIds : \A n \in runs[r].recorded : InStateFile(n)

\* C39: with two controller runs interleaving on one state file, a stage a
\* run recorded as completed through a Save that returned success is
\* completed in the state file after both runs finish when no Save renamed
\* or wrote the file after that one; what the other run recorded through an
\* earlier Save can be lost
C39_LastSaveStands ==
  BothRunsDone =>
    \A r \in RunIds :
      (runs[r].last /\ runs[r].svRet = "True")
        => \A n \in runs[r].recorded : InStateFile(n)

\* both runs recorded a stage through a successful Save, the later Save
\* stands and the stage of the other run is gone from the file
C39_Witness ==
  /\ BothRunsDone
  /\ \E r, q \in RunIds :
       /\ r # q
       /\ runs[r].last /\ runs[r].svRet = "True"
       /\ runs[r].recorded # {} /\ \A n \in runs[r].recorded : InStateFile(n)
       /\ \E n \in runs[q].recorded : ~InStateFile(n)

====
